---- MODULE Spec2Model ----
(***************************************************************************)
(* A model of scripts/verify_citations.py: the text normalizer, the        *)
(* reference-block locator, the segmenter, the multi-signal counter, the   *)
(* extraction orchestrator, the catalog reconciler, the report builder     *)
(* and the run of main over the catalog file.                              *)
(*                                                                         *)
(* Text representation.  A reference block is a sequence of lines and a    *)
(* line is a sequence of tokens [k |-> kind, v |-> number].  Every token   *)
(* stands for a concrete piece of text that ends with one blank:           *)
(*   SQ v   "[v] "          a bracketed numeral                            *)
(*   NUM v  "v. "           a numeral followed by a period                 *)
(*   BUL    "- "            a bullet glyph                                 *)
(*   TXT v  v characters of lower-case prose (no digit, capital, bracket,  *)
(*          period or marker word)                                         *)
(*   YR     "2019 "         a year not followed by a period                *)
(*   YRP    "2019. "        a year followed by a period                    *)
(*   MRK    "journal "      a bibliographic marker word                    *)
(*   DOI v  "10.1234/xv "   a DOI string, distinct for distinct v          *)
(*   AUI    "Smith, J. "    surname, initial                               *)
(*   AUF    "John Smith, "  capitalised multi-word name, comma             *)
(*   CORP   "Google. 2015. " organisation name and year                    *)
(*   HEAD   "References "   a references heading                           *)
(*   TAIL   "Appendix "     a tail-marker heading                          *)
(* A line is empty, or a heading (HEAD or TAIL) alone, or an entry line:   *)
(* at most one starter (SQ, NUM, BUL, AUI, AUF, CORP) followed by body     *)
(* tokens (TXT, YR, YRP, MRK, DOI, and SQ as an inline citation).  The     *)
(* regular expressions of the source are translated into what they match   *)
(* on such lines.                                                          *)
(***************************************************************************)
EXTENDS Integers, Sequences, FiniteSets, TLC

(* ------------------------------ bounds -------------------------------- *)
\* lines of a numbered reference block built by AppendRef
MaxRefs == 6
\* an inline citation on line k cites label k + CiteOffset
CiteOffset == 5
\* largest numeral label and number of lines of a block built by AppendLabelled
MaxLabel == 4
MaxLabelLines == 3
\* lines of a block of mixed reference styles built by CountMixed
MaxMixedLines == 13
\* lines of a document text built by ExtractSegments
MaxTextLines == 5
\* characters of a raw text handed to the normalizer
MaxRawLen == 4
\* references of the small sample documents
SmallRefs == 2
\* calls of _get_pdf_text_and_count in one run
MaxCalls == 2
\* entries of the catalog
MaxEntries == 2
\* pieces of a segment built by ParseSegment
MaxPieces == 3
\* characters of a long line of prose
LongLine == 29990

VARIABLES
    block,      \* the block handed to _count_entries_in_block
    cres,       \* its result: count, pattern label, detector values, contiguity
    text,       \* the text handed to _extract_reference_segments
    segments,   \* the segments it returns
    raw,        \* a raw backend text, as a sequence of characters
    norm1,      \* _insert_segment_newlines(_normalize_text(raw))
    norm2,      \* the same applied to norm1
    cache,      \* _EXTRACT_CACHE: key -> result
    calls,      \* calls of _get_pdf_text_and_count so far
    opc,        \* where the current call stands: "idle", "loop", "store"
    okey,       \* its cache key
    odoc,       \* what each backend yields for the document
    otexts,     \* texts: the non-empty backend outputs, in order
    oidx,       \* the output the loop is at
    obest,      \* best_label, best_text, best_count, best_reason
    oevald,     \* the outputs evaluated so far, with their scores
    oret,       \* what the last call returned
    entries,    \* the catalog entries read so far
    listing,    \* os.listdir of the document directory
    catalog,    \* what _build_catalog returns
    mpc,        \* "load", "ready", "parsed", "mapped"
    mref,       \* the parsed reference handed to _map_ref_to_id
    mres,       \* the identifier it returns, <<>> for None
    renv,       \* a run of build_report: online, the directory, its document
    rpc,        \* "start", "loop", "entry", "done", "raised"
    rread,      \* entries of the catalog taken by the loop so far
    rentry,     \* the entry the loop is at, and what Crossref answers for it
    rtotals,    \* processed, mismatches, missing_pdf, parse_fail
    rlast,      \* what the loop made of the last entry: counts, verdict, block
    rblocks,    \* entry blocks appended to the lines of the report so far
    fjson,      \* the catalog file, --json: its entries
    freport,    \* the report file, --report: <<>> until written
    fextracted, \* reports/extracted_citations.json: <<>> until written
    margs,      \* main: the options and the document directory
    mloaded,    \* main: all_entries, the catalog as loaded
    mextracted, \* main: extracted, id -> the citations of the entry
    mainpc,     \* main: "start", "loaded", "reported", "extracted", "saved",
                \*       "done", "raised"
    mret,       \* main: the exit status, <<>> while running
    pseg,       \* the pieces of the segment handed to _parse_reference
    pinfo,      \* what it returns: year and title
    aread,      \* entries annotate_json has taken so far
    alast,      \* the annotation of the last of them, and whether it is off
    atotals     \* modified, mismatches

cntVars == <<block, cres>>
segVars == <<text, segments>>
normVars == <<raw, norm1, norm2>>
orchVars == <<cache, calls, opc, okey, odoc, otexts, oidx, obest, oevald, oret>>
mapVars == <<entries, listing, catalog, mpc, mref, mres>>
repVars == <<renv, rpc, rread, rentry, rtotals, rlast, rblocks>>
mainVars == <<fjson, freport, fextracted, margs, mloaded, mextracted, mainpc, mret>>
parseVars == <<pseg, pinfo>>
annVars == <<aread, alast, atotals>>
vars == <<cntVars, segVars, normVars, orchVars, mapVars, repVars, mainVars, parseVars, annVars>>

\* what the counter calls leave alone
notCnt == <<segVars, normVars, orchVars, mapVars, repVars, mainVars, parseVars, annVars>>
\* what the segment extraction leaves alone
notSeg == <<cntVars, normVars, orchVars, mapVars, repVars, mainVars, parseVars, annVars>>
\* what the normalizer leaves alone
notNorm == <<cntVars, segVars, orchVars, mapVars, repVars, mainVars, parseVars, annVars>>
\* what the extraction orchestrator leaves alone
notOrch == <<cntVars, segVars, normVars, mapVars, repVars, mainVars, parseVars, annVars>>
\* what the catalog reconciler leaves alone
notMap == <<cntVars, segVars, normVars, orchVars, repVars, mainVars, parseVars, annVars>>
\* what a run of build_report leaves alone
notRep == <<cntVars, segVars, normVars, orchVars, mapVars, mainVars, parseVars, annVars>>
\* what a run of main leaves alone
notMain == <<cntVars, segVars, normVars, orchVars, mapVars, repVars, parseVars, annVars>>
\* what the reference parser leaves alone
notParse == <<cntVars, segVars, normVars, orchVars, mapVars, repVars, mainVars, annVars>>
\* what build_report and annotate_json, run side by side, leave alone
notAgree == <<cntVars, segVars, normVars, orchVars, mapVars, mainVars, parseVars>>

(* ------------------------------ tokens -------------------------------- *)
Tok(k, v) == [k |-> k, v |-> v]

Digits(v) == IF v < 10 THEN 1 ELSE IF v < 100 THEN 2 ELSE 3

\* number of characters of the text a token stands for
TokLen(t) ==
    CASE t.k = "SQ"   -> Digits(t.v) + 3
      [] t.k = "NUM"  -> Digits(t.v) + 2
      [] t.k = "BUL"  -> 2
      [] t.k = "TXT"  -> t.v
      [] t.k = "YR"   -> 5
      [] t.k = "YRP"  -> 6
      [] t.k = "MRK"  -> 8
      [] t.k = "DOI"  -> Digits(t.v) + 10
      [] t.k = "AUI"  -> 10
      [] t.k = "AUF"  -> 12
      [] t.k = "CORP" -> 14
      [] t.k = "HEAD" -> 11
      [] t.k = "TAIL" -> 9

RECURSIVE LineLen(_)
LineLen(line) == IF line = <<>> THEN 0 ELSE TokLen(Head(line)) + LineLen(Tail(line))

\* characters of lines[1..n] joined by newlines
RECURSIVE JoinedLen(_)
JoinedLen(lines) ==
    IF lines = <<>> THEN 0
    ELSE IF Len(lines) = 1 THEN LineLen(lines[1])
    ELSE LineLen(Head(lines)) + 1 + JoinedLen(Tail(lines))

RECURSIVE DropTrailingBlank(_)
DropTrailingBlank(lines) ==
    IF lines = <<>> THEN <<>>
    ELSE IF lines[Len(lines)] = <<>> THEN DropTrailingBlank(SubSeq(lines, 1, Len(lines) - 1))
    ELSE lines

RECURSIVE DropLeadingBlank(_)
DropLeadingBlank(lines) ==
    IF lines = <<>> THEN <<>>
    ELSE IF Head(lines) = <<>> THEN DropLeadingBlank(Tail(lines))
    ELSE lines

\* len(txt.strip()): surrounding blank lines and the last token's blank go
StrippedLen(lines) ==
    LET core == DropTrailingBlank(DropLeadingBlank(lines))
    IN  IF core = <<>> THEN 0 ELSE JoinedLen(core) - 1

\* the tokens of some lines, as one set
TokensIn(lines) == UNION {{lines[i][j] : j \in 1..Len(lines[i])} : i \in 1..Len(lines)}
KindsIn(lines) == {t.k : t \in TokensIn(lines)}

(* ---------------------- segmentation by anchors ----------------------- *)
\* anchor_re: a line that starts with "[d{1,3}]" or "d{1,3}." / "d{1,3})"
IsAnchorLine(line) ==
    /\ line # <<>>
    /\ Head(line).k \in {"SQ", "NUM"}
    /\ Head(line).v < 1000

AnchorLines(b) == {i \in 1..Len(b) : IsAnchorLine(b[i])}

\* The segments, in order: each runs from an anchor line to the line before
\* the next anchor line, the last one to the end of the block.
RECURSIVE SegmentsFrom(_, _)
SegmentsFrom(b, i) ==
    IF i > Len(b) THEN <<>>
    ELSE IF ~IsAnchorLine(b[i]) THEN SegmentsFrom(b, i + 1)
    ELSE LET later == {j \in AnchorLines(b) : j > i}
             last  == IF later = {} THEN Len(b)
                      ELSE (CHOOSE j \in later : \A m \in later : j <= m) - 1
         IN  <<[from |-> i, to |-> last, num |-> Head(b[i]).v]>>
             \o SegmentsFrom(b, last + 1)

SegmentReferences(b) == SegmentsFrom(b, 1)

SegLines(b, s) == SubSeq(b, s.from, s.to)

\* the tokens of some lines, in order
RECURSIVE Flatten(_)
Flatten(lines) == IF lines = <<>> THEN <<>> ELSE Head(lines) \o Flatten(Tail(lines))

\* the leading characters "^[\s\[\d\).-]*" skip numerals, bullets, years and
\* line breaks, never a closing bracket; then "Surname, I." must follow
RECURSIVE AuthorLikeStart(_)
AuthorLikeStart(toks) ==
    IF toks = <<>> THEN FALSE
    ELSE IF Head(toks).k \in {"NUM", "BUL", "YR", "YRP"} THEN AuthorLikeStart(Tail(toks))
    ELSE Head(toks).k = "AUI"

MinRefLen == 40

LooksLikeReference(lines) ==
    LET ks == KindsIn(lines)
    IN  /\ StrippedLen(lines) >= MinRefLen
        /\ ks \cap {"YR", "YRP", "CORP"} # {}
        /\ \/ ks \cap {"MRK", "DOI"} # {}
           \/ AuthorLikeStart(Flatten(lines))

(* --------------------------- the detectors ---------------------------- *)
\* pat_sq, pat_dot, pat_bullet: "(?:^|\n)\s*<marker>\s+" without MULTILINE.
\* A match on a line that holds the marker alone runs over the newline, so
\* the line after it cannot start a match (eaten).
RECURSIVE CountStarts(_, _, _, _)
CountStarts(b, i, K, eaten) ==
    IF i > Len(b) THEN 0
    ELSE IF b[i] = <<>> THEN CountStarts(b, i + 1, K, eaten)
    ELSE IF Head(b[i]).k = K /\ Head(b[i]).v < 1000 /\ ~eaten
         THEN 1 + CountStarts(b, i + 1, K, Len(b[i]) = 1)
         ELSE CountStarts(b, i + 1, K, FALSE)

\* pat_sq_any over the block, kept when 0 < n < 1000
UniqLabels(b) == {t.v : t \in {u \in TokensIn(b) : u.k = "SQ" /\ u.v > 0 /\ u.v < 1000}}

\* doi_capture over the block
UniqDois(b) == {t.v : t \in {u \in TokensIn(b) : u.k = "DOI"}}

\* characters of line[1..j-1], plus the name part when token j is CORP
CharsBeforeYear(line, j) ==
    LineLen(SubSeq(line, 1, j - 1)) + (IF line[j].k = "CORP" THEN 8 ELSE 0)

\* year_lead: "(?:^|\n)\s*[^\n]{0,300}?(19|20)\d{2}[a-z]?\."
YearLeadLine(line) ==
    \E j \in 1..Len(line) :
        /\ line[j].k \in {"YRP", "CORP"}
        /\ CharsBeforeYear(line, j) <= 300

\* pat_year: "(?:^|\n)\s*[A-Z][^\n]{2,200}?\(?(19|20)\d{2}\)?[\.,]"
PatYearLine(line) ==
    /\ line # <<>>
    /\ Head(line).k \in {"AUI", "AUF", "CORP", "HEAD", "TAIL"}
    /\ \E j \in 1..Len(line) :
          /\ line[j].k \in {"YRP", "CORP"}
          /\ CharsBeforeYear(line, j) - 1 >= 2
          /\ CharsBeforeYear(line, j) - 1 <= 200

\* author_line: "Surname, I." at a line start, a year later on the line
AuthorLine(line) ==
    /\ line # <<>>
    /\ Head(line).k = "AUI"
    /\ \E j \in 2..Len(line) : line[j].k \in {"YR", "YRP", "CORP"}

\* author_fname_line and author_line_start: "Firstname Lastname," at a line start
AuthorFnameLine(line) == line # <<>> /\ Head(line).k = "AUF"

\* corp_year: capital, 2..40 letters, digits, blanks or . & / -, a year, a period
CorpYearLine(line) == line # <<>> /\ Head(line).k = "CORP"

\* lines_list[i].rstrip().endswith('.')
EndsWithPeriod(line) ==
    line # <<>> /\ line[Len(line)].k \in {"YRP", "AUI", "CORP", "NUM"}

\* paragraphs: re.split(r"\n{2,}", lines), the empty ones dropped
RECURSIVE Paragraphs(_, _)
Paragraphs(b, cur) ==
    IF b = <<>> THEN (IF cur = <<>> THEN <<>> ELSE <<cur>>)
    ELSE IF Head(b) = <<>>
         THEN (IF cur = <<>> THEN <<>> ELSE <<cur>>) \o Paragraphs(Tail(b), <<>>)
         ELSE Paragraphs(Tail(b), Append(cur, Head(b)))

\* a paragraph of at least 50 characters with a pat_year match and a
\* journal/conference token (pat_doi needs the word "doi", which no token holds)
ParagraphCounts(p) ==
    /\ StrippedLen(p) >= 50
    /\ \E i \in 1..Len(p) : PatYearLine(p[i])
    /\ "MRK" \in KindsIn(p)

CountParas(b) ==
    LET ps == Paragraphs(b, <<>>)
    IN  Cardinality({i \in 1..Len(ps) : ParagraphCounts(ps[i])})

\* offset of the first character of line i
LineStart(b, i) == IF i = 1 THEN 0 ELSE JoinedLen(SubSeq(b, 1, i - 1)) + 1

\* m.start() of a "(?:^|\n)\s*..." match on line i: the newline that ends the
\* last non-blank line before it, or 0
MatchStart(b, i) ==
    LET prev == {j \in 1..(i - 1) : b[j] # <<>>}
    IN  IF prev = {} THEN 0
        ELSE LET j == CHOOSE m \in prev : \A n \in prev : n <= m
             IN  LineStart(b, j) + LineLen(b[j])

RECURSIVE Insert(_, _)
Insert(x, sorted) ==
    IF sorted = <<>> THEN <<x>>
    ELSE IF x <= Head(sorted) THEN <<x>> \o sorted
    ELSE <<Head(sorted)>> \o Insert(x, Tail(sorted))

RECURSIVE Sorted(_)
Sorted(seq) == IF seq = <<>> THEN <<>> ELSE Insert(Head(seq), Sorted(Tail(seq)))

\* the indices of a set of line numbers, increasing
RECURSIVE Ascending(_)
Ascending(S) ==
    IF S = {} THEN <<>>
    ELSE LET m == CHOOSE x \in S : \A y \in S : x <= y
         IN  <<m>> \o Ascending(S \ {m})

\* author-firstname anchors clustered by distance: a gap above
\* max(200, p75 + 0.5 * iqr) starts a new cluster
\* d > thr for thr = max(200, p75 + 0.5 * iqr), iqr = max(1, p75 - p25)
OverThreshold(d, p25, p75) ==
    d > 200 /\ 2 * d > 2 * p75 + (IF p75 - p25 > 1 THEN p75 - p25 ELSE 1)

\* the clusters of a non-empty list of distances, sd being the list sorted
ClustersOfSorted(dists, sd) ==
    1 + Cardinality({n \in 1..Len(dists) :
            OverThreshold(dists[n], sd[((Len(sd) - 1) \div 4) + 1],
                          sd[((3 * (Len(sd) - 1)) \div 4) + 1])})

\* with one anchor there is no distance and one cluster
ClustersOfDists(dists) == IF dists = <<>> THEN 1 ELSE ClustersOfSorted(dists, Sorted(dists))

ClustersOfPositions(pos) ==
    IF pos = <<>> THEN 0
    ELSE ClustersOfDists([n \in 1..(Len(pos) - 1) |-> pos[n + 1] - pos[n]])

PositionsOf(b, idx) == [n \in 1..Len(idx) |-> MatchStart(b, idx[n])]

AuthorClusters(b) ==
    ClustersOfPositions(PositionsOf(b, Ascending({i \in 1..Len(b) : AuthorFnameLine(b[i])})))

\* boundaries: a line ending with '.' followed by an author-like line
CountBoundaries(b) ==
    LET c == Cardinality({i \in 1..(Len(b) - 1) :
                             EndsWithPeriod(b[i]) /\ AuthorFnameLine(b[i + 1])})
    IN  IF c > 0 THEN c + 1 ELSE 0

\* the anchor segments that look like a reference
ValidAmong(b, sgs) == {n \in 1..Len(sgs) : LooksLikeReference(SegLines(b, sgs[n]))}

ValidSegs(b) == ValidAmong(b, SegmentReferences(b))

\* nums = [n for (_, _, _, n) in valid_segs if n > 0]
NumsAmong(b, sgs) == {sgs[n].num : n \in {m \in ValidAmong(b, sgs) : sgs[m].num > 0}}

ValidNums(b) == NumsAmong(b, SegmentReferences(b))

SetMax(S) == CHOOSE x \in S : \A y \in S : y <= x
SetMin(S) == CHOOSE x \in S : \A y \in S : x <= y

\* ContigRatio with expected_range taken as max - min
ContigRatioOffByOne(S) ==
    IF S = {} THEN [num |-> 0, den |-> 1]
    ELSE LET range == SetMax(S) - SetMin(S)
         IN  IF range > 0 THEN [num |-> Cardinality(S), den |-> range]
             ELSE [num |-> 0, den |-> 1]

\* len(uniq) / (max - min + 1) as a fraction; 0.0 when there is no label
ContigRatio(S) ==
    IF S = {} THEN [num |-> 0, den |-> 1]
    ELSE LET range == SetMax(S) - SetMin(S) + 1
         IN  IF range > 0 THEN [num |-> Cardinality(S), den |-> range]
             ELSE [num |-> 0, den |-> 1]

Detectors(b) ==
    [ segmented          |-> Cardinality(ValidSegs(b)),
      square             |-> CountStarts(b, 1, "SQ", FALSE),
      numbered           |-> CountStarts(b, 1, "NUM", FALSE),
      bullet             |-> CountStarts(b, 1, "BUL", FALSE),
      labels_unique      |-> Cardinality(UniqLabels(b)),
      paragraph          |-> CountParas(b),
      author_start       |-> Cardinality({i \in 1..Len(b) : AuthorLine(b[i])}),
      author_fname_start |-> Cardinality({i \in 1..Len(b) : AuthorFnameLine(b[i])}),
      corp_year          |-> Cardinality({i \in 1..Len(b) : CorpYearLine(b[i])}),
      dois_unique        |-> Cardinality(UniqDois(b)),
      author_clusters    |-> AuthorClusters(b),
      boundaries         |-> CountBoundaries(b),
      year_lead          |-> Cardinality({i \in 1..Len(b) : YearLeadLine(b[i])}) ]

(* ------------------------- the arbitration policy ---------------------- *)
\* the candidates, in the order of the list that max() scans
CandOrder ==
    << "segmented", "square", "numbered", "bullet", "labels_unique", "paragraph",
       "author_start", "author_fname_start", "corp_year", "dois_unique",
       "author_clusters", "boundaries", "year_lead" >>

\* max(candidates, key=value): the first candidate with the largest value
MaxCandidate(d) ==
    LET m == SetMax({d[CandOrder[i]] : i \in 1..Len(CandOrder)})
        i == SetMin({j \in 1..Len(CandOrder) : d[CandOrder[j]] = m})
    IN  [label |-> CandOrder[i], count |-> m]

Max2(a, b) == IF a >= b THEN a ELSE b

\* the label counts below 1000 for which the floating-point product 0.7 * u
\* falls short of the integer 7u/10
ProductFallsShort ==
    {90, 170, 180} \cup {10 * k : k \in 33..36} \cup {10 * k : k \in 65..73}

\* int(0.7 * u) and int(u * 1.1), for label counts below 1000
SeventyPercentUp(u) == (7 * u + 9) \div 10
SeventyPercent(u) == (7 * u) \div 10 - (IF u \in ProductFallsShort THEN 1 ELSE 0)
HundredTenPercent(u) == (11 * u) \div 10

\* LabelsCap with the cap left out
LabelsCapNever(d, mx) == [label |-> mx.label, count |-> mx.count, capped |-> FALSE]

\* LabelsCap with the count cut to int(c_labels_unique * 1.1)
LabelsCapTenth(d, mx) ==
    IF d.labels_unique # 0 /\ mx.count > HundredTenPercent(d.labels_unique)
    THEN [label |-> mx.label, count |-> HundredTenPercent(d.labels_unique), capped |-> TRUE]
    ELSE [label |-> mx.label, count |-> mx.count, capped |-> FALSE]

\* the capping step of the last branch
LabelsCap(d, mx) ==
    IF d.labels_unique # 0 /\ mx.count > HundredTenPercent(d.labels_unique)
    THEN [label |-> mx.label, count |-> d.labels_unique, capped |-> TRUE]
    ELSE [label |-> mx.label, count |-> mx.count, capped |-> FALSE]

\* Pick with one entry more than the detector counted
PickOneMore(l, c) == [label |-> l, count |-> c + 1, capped |-> FALSE]

\* chosen_label, chosen = l, c
Pick(l, c) == [label |-> l, count |-> c, capped |-> FALSE]

\* AtLeastShare with the comparison left out
AtLeastShareAlways(c, tenths, m) == TRUE

\* c >= m * 0.7 and c >= m * 0.8, the factor given in tenths
AtLeastShare(c, tenths, m) == 10 * c >= tenths * m

\* the selection among the detectors; cr and ca are contig_ratio and
\* contig_all, mx the largest candidate
PolicyOver(d, cr, ca, mx) ==
        IF d.segmented >= 5 /\ (2 * cr.num >= cr.den \/ d.square > 0)
        THEN IF /\ d.labels_unique >= 5
                /\ d.segmented < SeventyPercent(d.labels_unique)
                /\ 10 * ca.num >= 6 * ca.den
             THEN Pick("labels_unique_contig", d.labels_unique)
             ELSE Pick("segmented", d.segmented)
        ELSE IF d.author_start >= 5 /\ AtLeastShare(d.author_start, 8, mx.count)
        THEN Pick("author_start", d.author_start)
        ELSE IF d.author_fname_start >= 5
        THEN IF /\ d.author_clusters >= 5
                /\ \/ AtLeastShare(d.author_clusters, 7, mx.count)
                   \/ d.author_clusters <= 300
             THEN Pick("author_clusters", d.author_clusters)
             ELSE Pick("author_fname_start", d.author_fname_start)
        ELSE IF d.corp_year >= 3 /\ AtLeastShare(d.corp_year, 7, mx.count)
        THEN Pick("corp_year", d.corp_year)
        ELSE IF d.dois_unique >= 5 /\ AtLeastShare(d.dois_unique, 8, mx.count)
        THEN Pick("dois_unique", d.dois_unique)
        ELSE IF /\ d.year_lead >= 5 /\ d.year_lead <= 300
                /\ AtLeastShare(d.year_lead, 8, Max2(mx.count, d.author_fname_start))
        THEN Pick("year_lead", d.year_lead)
        ELSE IF d.boundaries >= 5 /\ AtLeastShare(d.boundaries, 7, mx.count)
        THEN Pick("boundaries", d.boundaries)
        ELSE LabelsCap(d, mx)

Policy(d, cr, ca) == PolicyOver(d, cr, ca, MaxCandidate(d))

\* _count_entries_in_block: the count, the pattern label and the rationale
CountResult(p, d, cr, ca) ==
    [count |-> p.count, label |-> p.label, capped |-> p.capped,
     detectors |-> d, contig |-> cr, contig_all |-> ca]

CountFrom(d, cr, ca) == CountResult(Policy(d, cr, ca), d, cr, ca)

CountEntriesInBlock(b) ==
    CountFrom(Detectors(b), ContigRatio(ValidNums(b)), ContigRatio(UniqLabels(b)))

(* -------------------- the counter on numbered blocks ------------------- *)
\* the bodies a reference line of a numbered list may have; line k of the
\* block carries DOIs 2k-1 and 2k, and cites label k + CiteOffset
RefShapes == {"plain", "doi2", "cite", "noyear"}

RefBody(shape, k) ==
    CASE shape = "plain"  -> <<Tok("TXT", 40), Tok("YRP", 0), Tok("MRK", 0)>>
      [] shape = "doi2"   -> <<Tok("TXT", 40), Tok("YRP", 0),
                               Tok("DOI", 2 * k - 1), Tok("DOI", 2 * k)>>
      [] shape = "cite"   -> <<Tok("TXT", 40), Tok("YRP", 0), Tok("MRK", 0),
                               Tok("SQ", k + CiteOffset)>>
      [] shape = "noyear" -> <<Tok("TXT", 40), Tok("MRK", 0)>>

\* _count_entries_in_block on the block "[1] ..." to "[n+1] ..."
CountNumbered(shape) ==
    /\ Len(block) < MaxRefs
    /\ block' = Append(block, <<Tok("SQ", Len(block) + 1)>> \o RefBody(shape, Len(block) + 1))
    /\ cres' = CountEntriesInBlock(block')

NextCount == (\E shape \in RefShapes : CountNumbered(shape)) /\ UNCHANGED notCnt

(* ------------------ the counter on arbitrarily labelled lines ---------- *)
LabelShapes == {"plain", "noyear"}

\* _count_entries_in_block on a block extended by a line "[label] ..."
CountLabelled(label, shape) ==
    /\ Len(block) < MaxLabelLines
    /\ block' = Append(block, <<Tok("SQ", label)>> \o RefBody(shape, Len(block) + 1))
    /\ cres' = CountEntriesInBlock(block')

NextLabels ==
    (\E label \in 0..MaxLabel, shape \in LabelShapes : CountLabelled(label, shape))
    /\ UNCHANGED notCnt

(* ------------------- the counter on blocks of mixed styles ------------- *)
\* the styles a run of reference lines may have; line k of the block carries
\* label k or DOI k where its style has one
MixedShapes ==
    {"aui", "auf", "corp", "doi", "yl", "bul", "num", "ref", "cite", "bulcite"}

\* the lengths of a run of lines of one style
RunLengths == {3, 5, 8}

MixedLine(shape, k) ==
    CASE shape = "aui"  -> <<Tok("AUI", 0), Tok("TXT", 40), Tok("YRP", 0)>>
      [] shape = "auf"  -> <<Tok("AUF", 0), Tok("TXT", 40), Tok("YRP", 0)>>
      [] shape = "corp" -> <<Tok("CORP", 0), Tok("TXT", 40)>>
      [] shape = "doi"  -> <<Tok("TXT", 40), Tok("DOI", k)>>
      [] shape = "yl"   -> <<Tok("TXT", 40), Tok("YRP", 0)>>
      [] shape = "bul"  -> <<Tok("BUL", 0), Tok("TXT", 40)>>
      [] shape = "num"  -> <<Tok("NUM", k), Tok("TXT", 40)>>
      [] shape = "ref"  -> <<Tok("SQ", k), Tok("TXT", 40), Tok("YRP", 0), Tok("MRK", 0)>>
      [] shape = "cite" -> <<Tok("TXT", 10), Tok("SQ", k)>>
      [] shape = "bulcite" -> <<Tok("BUL", 0), Tok("TXT", 40), Tok("SQ", k)>>

\* n lines of one style, numbered from k + 1
RunOfLines(shape, k, n) == [i \in 1..n |-> MixedLine(shape, k + i)]

\* _count_entries_in_block on the block extended by a run of n lines
CountMixed(shape, n) ==
    /\ Len(block) + n <= MaxMixedLines
    /\ block' = block \o RunOfLines(shape, Len(block), n)
    /\ cres' = CountEntriesInBlock(block')

NextMixed ==
    (\E shape \in MixedShapes, n \in RunLengths : CountMixed(shape, n))
    /\ UNCHANGED notCnt

(* ------------------------ the reference-block locator ------------------ *)
\* text[-30000:]
TailWindow == 30000

\* the last n characters of a line; a cut inside a token leaves a fragment
\* (the texts built here are cut inside prose only)
RECURSIVE LineSuffix(_, _)
LineSuffix(line, n) ==
    IF n <= 0 \/ line = <<>> THEN <<>>
    ELSE LET u == line[Len(line)]
             front == SubSeq(line, 1, Len(line) - 1)
         IN  IF TokLen(u) <= n THEN Append(LineSuffix(front, n - TokLen(u)), u)
             ELSE <<Tok("TXT", n)>>

\* the last w characters of a text
SuffixCharsWhole(t, w) == t

RECURSIVE SuffixChars(_, _)
SuffixChars(t, w) ==
    IF JoinedLen(t) <= w THEN t
    ELSE IF Len(t) = 1 THEN <<LineSuffix(t[1], w)>>
    ELSE IF JoinedLen(Tail(t)) >= w THEN SuffixChars(Tail(t), w)
    ELSE <<LineSuffix(Head(t), w - JoinedLen(Tail(t)) - 1)>> \o Tail(t)

IsHeadingLine(line) == line # <<>> /\ Head(line).k = "HEAD"
IsTailLine(line) == line # <<>> /\ Head(line).k = "TAIL"

\* from the first heading to the end of the text
FindReferencesBlockFirst(t) ==
    LET heads == {i \in 1..Len(t) : IsHeadingLine(t[i])}
    IN  IF heads # {}
        THEN [block |-> SubSeq(t, SetMin(heads), Len(t)), found |-> TRUE]
        ELSE [block |-> SuffixChars(t, TailWindow), found |-> FALSE]

\* _find_references_block: from the last heading to the first tail marker
\* after it (the newline before the marker stays in the block), else the
\* suffix window
FindReferencesBlock(t) ==
    LET heads == {i \in 1..Len(t) : IsHeadingLine(t[i])}
    IN  IF heads # {}
        THEN LET h == SetMax(heads)
                 tails == {i \in (h + 1)..Len(t) : IsTailLine(t[i])}
             IN  [ block |-> IF tails = {} THEN SubSeq(t, h, Len(t))
                             ELSE Append(SubSeq(t, h, SetMin(tails) - 1), <<>>),
                   found |-> TRUE ]
        ELSE [block |-> SuffixChars(t, TailWindow), found |-> FALSE]

(* ----------------------- the segmenter for extraction ------------------ *)
\* len(" ".join(cur).strip()) for the right-stripped lines cur
ChunkLen(ls) ==
    LET core == DropTrailingBlank(DropLeadingBlank(ls))
        sum[i \in 0..Len(core)] ==
            IF i = 0 THEN 0
            ELSE sum[i - 1] + (IF core[i] = <<>> THEN 0 ELSE LineLen(core[i]) - 1)
    IN  IF core = <<>> THEN 0 ELSE sum[Len(core)] + Len(core) - 1

\* the boundary fallback: a chunk is closed after a line that ends with a
\* period when the next line starts like an author; chunks under 40
\* characters are dropped
RECURSIVE BoundaryChunks(_, _, _)
BoundaryChunks(b, i, cur) ==
    IF i > Len(b)
    THEN IF cur # <<>> /\ ChunkLen(cur) >= MinRefLen
         THEN <<[lines |-> cur, len |-> ChunkLen(cur)]>> ELSE <<>>
    ELSE LET cur2 == Append(cur, b[i])
         IN  IF EndsWithPeriod(b[i]) /\ i < Len(b) /\ AuthorFnameLine(b[i + 1])
             THEN (IF ChunkLen(cur2) >= MinRefLen
                   THEN <<[lines |-> cur2, len |-> ChunkLen(cur2)]>> ELSE <<>>)
                  \o BoundaryChunks(b, i + 1, <<>>)
             ELSE BoundaryChunks(b, i + 1, cur2)

\* the anchor segments of at least 40 characters
AnchorSegs(b) ==
    LET all == SegmentReferences(b)
        long == SelectSeq(all, LAMBDA sg : StrippedLen(SegLines(b, sg)) >= MinRefLen)
    IN  [n \in 1..Len(long) |->
            [lines |-> SegLines(b, long[n]), len |-> StrippedLen(SegLines(b, long[n]))]]

\* SegmentsOrChunks with four segments being enough
SegmentsOrChunksFour(b, anchored) ==
    IF Len(anchored) >= 4 THEN anchored ELSE BoundaryChunks(b, 1, <<>>)

\* _extract_reference_segments
SegmentsOrChunks(b, anchored) ==
    IF Len(anchored) >= 5 THEN anchored ELSE BoundaryChunks(b, 1, <<>>)

SegmentsOfBlock(b) == SegmentsOrChunks(b, AnchorSegs(b))

ExtractReferenceSegments(t) == SegmentsOfBlock(FindReferencesBlock(t).block)

\* the lines a document text is built from; anchors are numbered in order
TextShapes == {"head", "tail", "ref", "noyear", "short", "author", "long"}

TextLine(shape, t) ==
    LET k == Cardinality(AnchorLines(t)) + 1
    IN  CASE shape = "head"   -> <<Tok("HEAD", 0)>>
          [] shape = "tail"   -> <<Tok("TAIL", 0)>>
          [] shape = "ref"    -> <<Tok("SQ", k), Tok("TXT", 40), Tok("YRP", 0), Tok("MRK", 0)>>
          [] shape = "noyear" -> <<Tok("SQ", k), Tok("TXT", 40), Tok("MRK", 0)>>
          [] shape = "short"  -> <<Tok("SQ", k), Tok("TXT", 10), Tok("YRP", 0)>>
          [] shape = "author" -> <<Tok("AUF", 0), Tok("TXT", 40), Tok("YRP", 0)>>
          [] shape = "long"   -> <<Tok("TXT", LongLine)>>

\* _extract_reference_segments on a text extended by one line
ExtractSegments(shape) ==
    /\ Len(text) < MaxTextLines
    /\ text' = Append(text, TextLine(shape, text))
    /\ segments' = ExtractReferenceSegments(text')

NextSeg == (\E shape \in TextShapes : ExtractSegments(shape)) /\ UNCHANGED notSeg

(* --------------------------- the normalizer ---------------------------- *)
\* A raw text is a sequence of characters: NL newline, SP blank, CR carriage
\* return, A a letter, D1 a digit, HY "-", DOT ".", and LB, the three
\* characters "[1]" taken together.
Chars == {"NL", "SP", "CR", "A", "D1", "HY", "DOT", "LB"}

IsSpace(c) == c \in {"NL", "SP", "CR"}
IsWordChar(c) == c \in {"A", "D1"}

\* s from position i on
From(s, i) == SubSeq(s, i, Len(s))

\* length of the longest prefix of s made of characters of set C
RECURSIVE RunLen(_, _)
RunLen(s, C) == IF s # <<>> /\ Head(s) \in C THEN 1 + RunLen(Tail(s), C) ELSE 0

\* re.sub(r"\r\n?|­", "\n", text)
RECURSIVE SubLineEndings(_)
SubLineEndings(s) ==
    IF s = <<>> THEN <<>>
    ELSE IF Head(s) = "CR"
         THEN IF Len(s) >= 2 /\ s[2] = "NL" THEN <<"NL">> \o SubLineEndings(From(s, 3))
              ELSE <<"NL">> \o SubLineEndings(Tail(s))
         ELSE <<Head(s)>> \o SubLineEndings(Tail(s))

\* re.sub(r"(\w)-\n(\w)", r"\1\2", text): matches do not overlap
RECURSIVE SubHyphenation(_)
SubHyphenation(s) ==
    IF s = <<>> THEN <<>>
    ELSE IF Len(s) >= 4 /\ IsWordChar(s[1]) /\ s[2] = "HY" /\ s[3] = "NL" /\ IsWordChar(s[4])
         THEN <<s[1], s[4]>> \o SubHyphenation(From(s, 5))
         ELSE <<Head(s)>> \o SubHyphenation(Tail(s))

\* re.sub(r"[ \t]+", " ", text)
RECURSIVE SubBlanks(_)
SubBlanks(s) ==
    IF s = <<>> THEN <<>>
    ELSE IF Head(s) = "SP" THEN <<"SP">> \o SubBlanks(From(s, RunLen(s, {"SP"}) + 1))
         ELSE <<Head(s)>> \o SubBlanks(Tail(s))

\* re.sub(r"\n\s+\n", "\n\n", text): from a newline, the greedy \s+ runs to
\* the last newline of the white space that follows
RECURSIVE SubBlankBlocks(_)
SubBlankBlocks(s) ==
    IF s = <<>> THEN <<>>
    ELSE IF Head(s) # "NL" THEN <<Head(s)>> \o SubBlankBlocks(Tail(s))
    ELSE LET run == RunLen(Tail(s), {"NL", "SP", "CR"})
             ends == {j \in 3..(1 + run) : s[j] = "NL"}
         IN  IF ends = {} THEN <<"NL">> \o SubBlankBlocks(Tail(s))
             ELSE <<"NL", "NL">> \o SubBlankBlocks(From(s, SetMax(ends) + 1))

\* _normalize_text
NormalizeText(s) ==
    SubBlankBlocks(SubBlanks(SubHyphenation(SubLineEndings(s))))

\* length of the match of a marker pattern at the start of s, 0 when none:
\*   "sq"     \s*\[\s*\d{1,3}\s*\]\s+
\*   "dot"    \s*\d{1,3}\s*[\.)]\s+
\*   "bullet" \s*[-]\s+
MarkerMatchLen(pat, s) ==
    LET a    == RunLen(s, {"NL", "SP", "CR"})
        r1   == From(s, a + 1)
        d    == RunLen(r1, {"D1"})
        r2   == From(r1, d + 1)
        c    == RunLen(r2, {"NL", "SP", "CR"})
        r3   == From(r2, c + 1)
        tail(r) == RunLen(Tail(r), {"NL", "SP", "CR"})
    IN  CASE pat = "sq" ->
               IF r1 # <<>> /\ Head(r1) = "LB" /\ tail(r1) >= 1 THEN a + 1 + tail(r1) ELSE 0
          [] pat = "bullet" ->
               IF r1 # <<>> /\ Head(r1) = "HY" /\ tail(r1) >= 1 THEN a + 1 + tail(r1) ELSE 0
          [] pat = "dot" ->
               IF d >= 1 /\ d <= 3 /\ r3 # <<>> /\ Head(r3) = "DOT" /\ tail(r3) >= 1
               THEN a + d + c + 1 + tail(r3) ELSE 0

\* re.sub(r"(?<!\n)(<pat>)", r"\n\1", text); afterNL tells whether the
\* character before s is a newline
RECURSIVE SubInsertNewline(_, _, _)
SubInsertNewline(pat, s, afterNL) ==
    IF s = <<>> THEN <<>>
    ELSE LET m == IF afterNL THEN 0 ELSE MarkerMatchLen(pat, s)
         IN  IF m > 0
             THEN <<"NL">> \o SubSeq(s, 1, m) \o SubInsertNewline(pat, From(s, m + 1), s[m] = "NL")
             ELSE <<Head(s)>> \o SubInsertNewline(pat, Tail(s), Head(s) = "NL")

\* _insert_segment_newlines
InsertSegmentNewlines(s) ==
    SubInsertNewline("bullet",
        SubInsertNewline("dot",
            SubInsertNewline("sq", s, FALSE), FALSE), FALSE)

\* what every backend applies to its raw text
Normalizer(s) == InsertSegmentNewlines(NormalizeText(s))

\* the normalizer on a raw text extended by one character, and on its result
NormalizeRaw(c) ==
    /\ Len(raw) < MaxRawLen
    /\ raw' = Append(raw, c)
    /\ norm1' = Normalizer(raw')
    /\ norm2' = Normalizer(norm1')

NextNorm == (\E c \in Chars : NormalizeRaw(c)) /\ UNCHANGED notNorm

(* ---------------------- the extraction orchestrator -------------------- *)
\* if found and count >= 10: break
EarlyExitMin == 10
\* --last-pages, default 8
DefaultLastPages == 8

\* What a backend yields for a document: nothing ("none": not installed,
\* failed, or empty text), or one of four texts.  The state holds a text by
\* its name; SampleText gives its lines.
Outputs == {"none", "prose", "located_small", "unlocated_small", "located_large"}

RefLines(n) == [i \in 1..n |-> <<Tok("SQ", i), Tok("TXT", 40), Tok("YRP", 0), Tok("MRK", 0)>>]

SampleText(out) ==
    CASE out = "prose"           -> <<<<Tok("TXT", 40)>>>>
      [] out = "located_small"   -> <<<<Tok("HEAD", 0)>>>> \o RefLines(SmallRefs)
      [] out = "unlocated_small" -> RefLines(SmallRefs + 1)
      [] out = "located_large"   -> <<<<Tok("HEAD", 0)>>>> \o RefLines(EarlyExitMin)
      [] out = "none"            -> <<>>

\* a document: the output of pypdf on the last pages and on all pages, of
\* pdfminer and of pdftotext
Docs ==
    [ tail  : {"none", "located_small"},
      full  : {"none", "prose", "located_small", "located_large"},
      miner : {"none", "unlocated_small", "located_small"},
      ptt   : {"none", "located_small"} ]

ScanModes == {"auto", "tail", "full"}
Extractors == {"auto", "pypdf", "pdfminer", "pdftotext"}

\* add_text: only a non-empty text is added
AddText(label, out) ==
    IF out = "none" THEN <<>> ELSE <<[label |-> label, text |-> out]>>

\* the texts gathered from the backends, in order
BackendTexts(doc, scan_mode, last_pages, extractor) ==
    ( IF scan_mode = "full" \/ last_pages <= 0 THEN AddText("pypdf-full", doc.full)
      ELSE IF scan_mode = "tail" THEN AddText("pypdf-tail", doc.tail)
      ELSE AddText("pypdf-auto-tail", doc.tail) \o AddText("pypdf-auto-full", doc.full) )
    \o ( IF extractor \in {"auto", "tutti", "pdfminer"}
         THEN AddText("pdfminer-full", doc.miner) ELSE <<>> )
    \o ( IF extractor \in {"auto", "tutti", "pdftotext"}
         THEN AddText("pdftotext-full", doc.ptt) ELSE <<>> )

\* a loop that starts below zero
NoResultBelowZero ==
    [label |-> "none", text |-> "none", count |-> -1,
     reason |-> [kind |-> "no_result", pattern |-> "", capped |-> FALSE]]

\* best_label, best_text, best_count, best_reason before the loop
NoResult ==
    [label |-> "none", text |-> "none", count |-> 0,
     reason |-> [kind |-> "no_result", pattern |-> "", capped |-> FALSE]]

\* what the loop computes for one output
Evaluated(out, found, c) ==
    [label |-> out.label, text |-> out.text, count |-> c.count, found |-> found,
     score |-> c.count + (IF found THEN 1 ELSE 0),
     reason |-> [kind |-> IF found THEN "found" ELSE "heuristic",
                 pattern |-> c.label, capped |-> c.capped]]

EvaluateBlock(out, loc) == Evaluated(out, loc.found, CountEntriesInBlock(loc.block))

Evaluate(out) == EvaluateBlock(out, FindReferencesBlock(SampleText(out.text)))

\* the body of the loop: if score > best_count, the output is retained
LoopStep(best, ev) ==
    IF ev.score > best.count
    THEN [label |-> ev.label, text |-> ev.text, count |-> ev.count, reason |-> ev.reason]
    ELSE best

\* a loop without the early exit
BreaksNever(ev) == FALSE

\* the early exit: if found and count >= 10: break
Breaks(ev) == ev.found /\ ev.count >= EarlyExitMin

\* the whole loop from output i on, with its early exit
RECURSIVE ChooseBest(_, _, _)
ChooseNext(texts, i, best, ev) ==
    IF Breaks(ev) THEN LoopStep(best, ev)
    ELSE ChooseBest(texts, i + 1, LoopStep(best, ev))

ChooseBest(texts, i, best) ==
    IF i > Len(texts) THEN best ELSE ChooseNext(texts, i, best, Evaluate(texts[i]))

CacheKey(path, scan_mode, last_pages, extractor) ==
    [path |-> path, mode |-> scan_mode, pages |-> last_pages, extractor |-> extractor]

\* _EXTRACT_CACHE[key] = {...}: the cache after the result is stored
CacheStoredNowhere(c, key, best) == c

CacheStored(c, key, best) ==
    [k \in DOMAIN c \cup {key} |-> IF k = key THEN best ELSE c[k]]

\* _get_pdf_text_and_count as a function of the cache and the document
GetPdfTextAndCount(c, key, doc) ==
    IF key \in DOMAIN c THEN c[key]
    ELSE ChooseBest(BackendTexts(doc, key.mode, key.pages, key.extractor), 1, NoResult)

\* the same call, step by step.  OrchCall: the cache lookup and, on a miss,
\* the gathering of the backend outputs.  The document is what the file at
\* the path holds; it is fixed by the first call.
OrchCall(doc, scan_mode, last_pages, extractor) ==
    /\ opc = "idle"
    /\ calls < MaxCalls
    /\ calls > 0 => doc = odoc
    /\ calls' = calls + 1
    /\ odoc' = doc
    /\ okey' = CacheKey("a.pdf", scan_mode, last_pages, extractor)
    /\ IF okey' \in DOMAIN cache
       THEN /\ oret' = cache[okey']
            /\ UNCHANGED <<cache, opc, otexts, oidx, obest, oevald>>
       ELSE /\ otexts' = BackendTexts(doc, scan_mode, last_pages, extractor)
            /\ oidx' = 1
            /\ obest' = NoResult
            /\ oevald' = <<>>
            /\ opc' = "loop"
            /\ UNCHANGED <<cache, oret>>

\* one pass of the loop over texts
OrchEvaluated(ev) ==
    /\ obest' = LoopStep(obest, ev)
    /\ oevald' = Append(oevald, [label |-> ev.label, score |-> ev.score,
                                 count |-> ev.count, found |-> ev.found])
    /\ opc' = IF Breaks(ev) THEN "store" ELSE "loop"
    /\ oidx' = IF Breaks(ev) THEN oidx ELSE oidx + 1

OrchEvaluate ==
    /\ opc = "loop"
    /\ oidx <= Len(otexts)
    /\ OrchEvaluated(Evaluate(otexts[oidx]))
    /\ UNCHANGED <<cache, calls, okey, odoc, otexts, oret>>

\* after the loop: the result is cached and returned
OrchStore ==
    /\ \/ opc = "store"
       \/ opc = "loop" /\ oidx > Len(otexts)
    /\ cache' = CacheStored(cache, okey, obest)
    /\ oret' = obest
    /\ opc' = "idle"
    /\ UNCHANGED <<calls, okey, odoc, otexts, oidx, obest, oevald>>

NextOrch ==
    /\ \/ \E doc \in Docs, m \in ScanModes, ex \in Extractors : OrchCall(doc, m, DefaultLastPages, ex)
       \/ OrchEvaluate
       \/ OrchStore
    /\ UNCHANGED notOrch

(* ------------------------- the catalog reconciler ---------------------- *)
\* A string is a sequence of characters.  The state holds a string as it is
\* written; Str gives its characters.
Str(s) ==
    CASE s = "" -> <<>>
      [] s = "10.1234/a" ->
            <<"1", "0", ".", "1", "2", "3", "4", "/", "a">>
      [] s = "HTTPS://dx.doi.org/10.1234/a " ->
            <<"H", "T", "T", "P", "S", ":", "/", "/", "d", "x", ".", "d", "o", "i", ".", "o", "r", "g", "/", "1", "0", ".", "1", "2", "3", "4", "/", "a", " ">>
      [] s = "10.1234/b" ->
            <<"1", "0", ".", "1", "2", "3", "4", "/", "b">>
      [] s = "data link cell" ->
            <<"d", "a", "t", "a", " ", "l", "i", "n", "k", " ", "c", "e", "l", "l">>
      [] s = "tree node leaf" ->
            <<"t", "r", "e", "e", " ", "n", "o", "d", "e", " ", "l", "e", "a", "f">>
      [] s = "Data Link: Cell" ->
            <<"D", "a", "t", "a", " ", "L", "i", "n", "k", ":", " ", "C", "e", "l", "l">>
      [] s = "data link cell type" ->
            <<"d", "a", "t", "a", " ", "l", "i", "n", "k", " ", "c", "e", "l", "l", " ", "t", "y", "p", "e">>
      [] s = "data links cells" ->
            <<"d", "a", "t", "a", " ", "l", "i", "n", "k", "s", " ", "c", "e", "l", "l", "s">>
      [] s = "Smith" ->
            <<"S", "m", "i", "t", "h">>
      [] s = "2019_smith_data_link.pdf" ->
            <<"2", "0", "1", "9", "_", "s", "m", "i", "t", "h", "_", "d", "a", "t", "a", "_", "l", "i", "n", "k", ".", "p", "d", "f">>
      [] s = "2019_smith_data-link" ->
            <<"2", "0", "1", "9", "_", "s", "m", "i", "t", "h", "_", "d", "a", "t", "a", "-", "l", "i", "n", "k">>
      [] s = "2019_smith_data-link.pdf" ->
            <<"2", "0", "1", "9", "_", "s", "m", "i", "t", "h", "_", "d", "a", "t", "a", "-", "l", "i", "n", "k", ".", "p", "d", "f">>

LowerLetters ==
    <<"a", "b", "c", "d", "e", "f", "g", "h", "i", "j", "k", "l", "m",
      "n", "o", "p", "q", "r", "s", "t", "u", "v", "w", "x", "y", "z">>
UpperLetters ==
    <<"A", "B", "C", "D", "E", "F", "G", "H", "I", "J", "K", "L", "M",
      "N", "O", "P", "Q", "R", "S", "T", "U", "V", "W", "X", "Y", "Z">>
DecimalDigits == <<"0", "1", "2", "3", "4", "5", "6", "7", "8", "9">>

ElementsOf(s) == {s[i] : i \in 1..Len(s)}

\* [a-z0-9]
LowerAlnum == ElementsOf(LowerLetters) \cup ElementsOf(DecimalDigits)

\* str.lower
ToLower ==
    [c \in ElementsOf(UpperLetters) |->
        LowerLetters[CHOOSE i \in 1..Len(UpperLetters) : UpperLetters[i] = c]]
LowerChar(c) == IF c \in DOMAIN ToLower THEN ToLower[c] ELSE c
LowerStr(s) == [i \in 1..Len(s) |-> LowerChar(s[i])]

\* str.strip
RECURSIVE LStrip(_)
LStrip(s) == IF s # <<>> /\ s[1] = " " THEN LStrip(Tail(s)) ELSE s
RECURSIVE RStrip(_)
RStrip(s) == IF s # <<>> /\ s[Len(s)] = " " THEN RStrip(SubSeq(s, 1, Len(s) - 1)) ELSE s
StripStr(s) == RStrip(LStrip(s))

StartsWith(s, p) == Len(s) >= Len(p) /\ SubSeq(s, 1, Len(p)) = p
EndsWith(s, p) == Len(s) >= Len(p) /\ SubSeq(s, Len(s) - Len(p) + 1, Len(s)) = p
DropFirst(s, n) == SubSeq(s, n + 1, Len(s))

\* str(n) of a natural number
RECURSIVE DecStr(_)
DecStr(n) ==
    IF n < 10 THEN <<DecimalDigits[n + 1]>>
    ELSE DecStr(n \div 10) \o <<DecimalDigits[(n % 10) + 1]>>

\* what ^https?://(dx\.)?doi\.org/ matches, in lower case
DoiUrlPrefixes ==
    { scheme \o host \o <<"d", "o", "i", ".", "o", "r", "g", "/">> :
        scheme \in { <<"h", "t", "t", "p", ":", "/", "/">>,
                     <<"h", "t", "t", "p", "s", ":", "/", "/">> },
        host \in { <<>>, <<"d", "x", ".">> } }

\* re.sub of the prefix, flags=re.IGNORECASE; p is the set of prefixes s has
DropDoiUrl(s, p) == IF p = {} THEN s ELSE DropFirst(s, Len(CHOOSE x \in p : TRUE))

\* normalize_doi
NormalizeDoi(doi) ==
    IF doi = <<>> THEN <<>>
    ELSE DropDoiUrl(StripStr(doi),
                    {x \in DoiUrlPrefixes : StartsWith(LowerStr(StripStr(doi)), x)})

\* re.sub(r"\s+", " ", s): a run of blanks becomes one blank
RECURSIVE CollapseBlanks(_)
CollapseBlanks(s) ==
    IF Len(s) < 2 THEN s
    ELSE IF s[1] = " " /\ s[2] = " " THEN CollapseBlanks(Tail(s))
    ELSE <<s[1]>> \o CollapseBlanks(Tail(s))

\* lower case, and every character outside [a-z0-9\s] becomes a blank
TitleChar(c) == IF LowerChar(c) \in LowerAlnum THEN LowerChar(c) ELSE " "

\* _normalize_title
NormalizeTitle(s) == StripStr(CollapseBlanks([i \in 1..Len(s) |-> TitleChar(s[i])]))

\* str.split: the words of a normalized string; w is the word being read
RECURSIVE SplitWords(_, _)
SplitWords(s, w) ==
    IF s = <<>> THEN (IF w = <<>> THEN <<>> ELSE <<w>>)
    ELSE IF s[1] = " " THEN (IF w = <<>> THEN <<>> ELSE <<w>>) \o SplitWords(Tail(s), <<>>)
    ELSE SplitWords(Tail(s), Append(w, s[1]))

LongWord(w) == Len(w) >= 4

\* _tokenize_title
TokenizeTitle(s) == SelectSeq(SplitWords(NormalizeTitle(s), <<>>), LongWord)

\* t in cid
IsSubstring(t, s) == \E i \in 1..(Len(s) - Len(t) + 1) : SubSeq(s, i, i + Len(t) - 1) = t

\* difflib.SequenceMatcher: the length of the common run of a from i and b
\* from j, within a[..ahi] and b[..bhi]
RECURSIVE CommonRun(_, _, _, _, _, _)
CommonRun(a, i, ahi, b, j, bhi) ==
    IF i <= ahi /\ j <= bhi /\ a[i] = b[j] THEN 1 + CommonRun(a, i + 1, ahi, b, j + 1, bhi) ELSE 0

\* find_longest_match: the longest block, the earliest in a, and of those
\* the earliest in b
LongestRun(a, alo, ahi, b, blo, bhi) ==
    SetMax({0} \cup {CommonRun(a, i, ahi, b, j, bhi) : i \in alo..ahi, j \in blo..bhi})
FirstInA(a, alo, ahi, b, blo, bhi, k) ==
    SetMin({i \in alo..ahi : \E j \in blo..bhi : CommonRun(a, i, ahi, b, j, bhi) = k})
FirstInB(a, ahi, b, blo, bhi, k, i) ==
    SetMin({j \in blo..bhi : CommonRun(a, i, ahi, b, j, bhi) = k})

\* get_matching_blocks: the characters matched, block by block
RECURSIVE MatchedChars(_, _, _, _, _, _)
MatchedAround(a, alo, ahi, b, blo, bhi, k, i, j) ==
    k + MatchedChars(a, alo, i - 1, b, blo, j - 1)
      + MatchedChars(a, i + k, ahi, b, j + k, bhi)
MatchedFromA(a, alo, ahi, b, blo, bhi, k, i) ==
    MatchedAround(a, alo, ahi, b, blo, bhi, k, i, FirstInB(a, ahi, b, blo, bhi, k, i))
MatchedOfLength(a, alo, ahi, b, blo, bhi, k) ==
    IF k = 0 THEN 0
    ELSE MatchedFromA(a, alo, ahi, b, blo, bhi, k, FirstInA(a, alo, ahi, b, blo, bhi, k))
MatchedChars(a, alo, ahi, b, blo, bhi) ==
    IF alo > ahi \/ blo > bhi THEN 0
    ELSE MatchedOfLength(a, alo, ahi, b, blo, bhi, LongestRun(a, alo, ahi, b, blo, bhi))

\* SequenceMatcher(a, b).ratio() = 2.0 * m / t, as the pair m, t
Ratio(a, b) ==
    IF Len(a) + Len(b) = 0 THEN [m |-> 1, t |-> 2]
    ELSE [m |-> MatchedChars(a, 1, Len(a), b, 1, Len(b)), t |-> Len(a) + Len(b)]

\* the identifier of the entry at position n of the catalog
IdOf(n) == <<"e">> \o DecStr(n)

\* _build_catalog: entries without id are skipped
WithId(es) == {n \in 1..Len(es) : es[n].id # <<>>}
WithDoi(es) == {n \in WithId(es) : es[n].doi # ""}
WithTitle(es) == {n \in WithId(es) : es[n].title # ""}

\* by_doi[normalize_doi(doi)] = pid, entry after entry
\* ByDoiEntry with the first entry of a DOI kept
ByDoiFirstWins(es, k) == es[SetMin({n \in WithDoi(es) : NormalizeDoi(Str(es[n].doi)) = k})].id
ByDoiEntry(es, k) == es[SetMax({n \in WithDoi(es) : NormalizeDoi(Str(es[n].doi)) = k})].id
ByDoi(es) == [k \in {NormalizeDoi(Str(es[n].doi)) : n \in WithDoi(es)} |-> ByDoiEntry(es, k)]

\* by_title[_normalize_title(title)] = pid, entry after entry
ByTitle(es) ==
    [k \in {NormalizeTitle(Str(es[n].title)) : n \in WithTitle(es)} |->
        es[SetMax({n \in WithTitle(es) : NormalizeTitle(Str(es[n].title)) = k})].id]

\* title_by_id, in insertion order
TitleById(es) ==
    [i \in 1..Cardinality(WithTitle(es)) |->
        [id |-> es[Ascending(WithTitle(es))[i]].id, title |-> es[Ascending(WithTitle(es))[i]].title]]

\* by_year_titles[y]: (pid, toks) of the entries of year y, in order
OfYear(tbi, es, y) == SelectSeq(tbi, LAMBDA x : \E n \in WithTitle(es) : es[n].id = x.id /\ es[n].year = y)
Tokenized(tbi) == [i \in 1..Len(tbi) |-> [id |-> tbi[i].id, toks |-> TokenizeTitle(Str(tbi[i].title))]]
ByYearTitles(es) ==
    [y \in {es[n].year : n \in {m \in WithTitle(es) : es[m].year > 0}} |->
        Tokenized(OfYear(TitleById(es), es, y))]

PdfSuffix == <<".", "p", "d", "f">>
IsPdf(f) == EndsWith(LowerStr(Str(f)), PdfSuffix)
Basename(f) == SubSeq(Str(f), 1, Len(Str(f)) - 4)

\* a catalog whose ids are those of the entries only
BuildCatalogOfEntries(es, files) ==
    [by_doi |-> ByDoi(es), by_title |-> ByTitle(es),
     ids |-> {es[n].id : n \in WithId(es)},
     title_by_id |-> TitleById(es), by_year_titles |-> ByYearTitles(es)]

\* _build_catalog
BuildCatalog(es, files) ==
    [by_doi |-> ByDoi(es), by_title |-> ByTitle(es),
     ids |-> {es[n].id : n \in WithId(es)}
             \cup {Basename(files[i]) : i \in {j \in 1..Len(files) : IsPdf(files[j])}},
     title_by_id |-> TitleById(es), by_year_titles |-> ByYearTitles(es)]

\* _guess_id_from_approaches: the first candidate with the highest score
RECURSIVE GuessBest(_, _, _, _)
GuessScore(tokens, cid) == Cardinality({n \in 1..Len(tokens) : IsSubstring(tokens[n], cid)})
GuessStep(cands, i, tokens, best, score) ==
    GuessBest(cands, i + 1, tokens,
              IF score > best.score THEN [id |-> cands[i], score |-> score] ELSE best)
GuessBest(cands, i, tokens, best) ==
    IF i > Len(cands) THEN best
    ELSE GuessStep(cands, i, tokens, best, GuessScore(tokens, cands[i]))

Surname(fa) == SelectSeq(LowerStr(fa), LAMBDA c : c \in LowerAlnum)
GuessPrefix(ref) == DecStr(ref.year) \o <<"_">> \o Surname(Str(ref.firstAuthor)) \o <<"_">>
FirstSix(toks) == SubSeq(toks, 1, IF Len(toks) < 6 THEN Len(toks) ELSE 6)

GuessCandidates(files, prefix) ==
    [i \in 1..Len(SelectSeq(files, LAMBDA f : IsPdf(f) /\ StartsWith(Str(f), prefix))) |->
        Basename(SelectSeq(files, LAMBDA f : IsPdf(f) /\ StartsWith(Str(f), prefix))[i])]

GuessAccepted(best) == IF best.score >= 2 THEN best.id ELSE <<>>

GuessIdFromApproaches(ref, files) ==
    IF ref.year = 0 \/ ref.firstAuthor = "" THEN <<>>
    ELSE GuessAccepted(GuessBest(GuessCandidates(files, GuessPrefix(ref)), 1,
                                 FirstSix(TokenizeTitle(Str(ref.title))),
                                 [id |-> <<>>, score |-> 0]))

\* the fuzzy stage: token Jaccard, jac = inter / uni
JaccardBetter(best, cid, inter, uni) ==
    IF inter >= 3 /\ inter * best.uni > best.inter * uni
    THEN [id |-> cid, inter |-> inter, uni |-> uni] ELSE best
JaccardStep(best, cid, toks, toksRef) ==
    IF toks = {} \/ toksRef = {} THEN best
    ELSE JaccardBetter(best, cid, Cardinality(toks \cap toksRef), Cardinality(toks \cup toksRef))
RECURSIVE JaccardBest(_, _, _, _)
JaccardBest(cands, i, toksRef, best) ==
    IF i > Len(cands) THEN best
    ELSE JaccardBest(cands, i + 1, toksRef,
                     JaccardStep(best, cands[i].id, ElementsOf(cands[i].toks), toksRef))

\* JaccardCandidates without the restriction to the reference's year
JaccardCandidatesAll(ref, cat) == Tokenized(cat.title_by_id)

\* the candidates: the titles of the reference's year, else all titles
JaccardCandidates(ref, cat) ==
    IF ref.year \in DOMAIN cat.by_year_titles THEN cat.by_year_titles[ref.year]
    ELSE Tokenized(cat.title_by_id)

\* best_id and best_score >= 0.4
JaccardAccepted(best) == best.id # <<>> /\ 10 * best.inter >= 4 * best.uni

\* the secondary stage: difflib ratio on the normalized titles
RatioBetter(best, cid, r) ==
    IF r.m * best.t > best.m * r.t THEN [id |-> cid, m |-> r.m, t |-> r.t] ELSE best
RECURSIVE RatioBest(_, _, _, _)
RatioBest(tbi, i, norm, best) ==
    IF i > Len(tbi) THEN best
    ELSE RatioBest(tbi, i + 1, norm,
                   RatioBetter(best, tbi[i].id, Ratio(norm, NormalizeTitle(Str(tbi[i].title)))))

\* best and best_r >= 0.72
RatioAccepted(best) == best.id # <<>> /\ 200 * best.m >= 72 * best.t

\* _map_ref_to_id from the difflib stage on
MapByRatio(ref, files, best) ==
    IF RatioAccepted(best) THEN best.id ELSE GuessIdFromApproaches(ref, files)

\* _map_ref_to_id from the Jaccard stage on
MapByJaccard(ref, cat, files, norm, best) ==
    IF JaccardAccepted(best) THEN best.id
    ELSE MapByRatio(ref, files, RatioBest(cat.title_by_id, 1, norm, [id |-> <<>>, m |-> 0, t |-> 1]))

\* _map_ref_to_id from the exact title on
MapByTitle(ref, cat, files, norm) ==
    IF norm \in DOMAIN cat.by_title THEN cat.by_title[norm]
    ELSE MapByJaccard(ref, cat, files, norm,
                      JaccardBest(JaccardCandidates(ref, cat), 1,
                                  ElementsOf(TokenizeTitle(Str(ref.title))),
                                  [id |-> <<>>, inter |-> 0, uni |-> 1]))

\* _map_ref_to_id from the title on
MapAfterDoi(ref, cat, files) ==
    IF ref.title # "" THEN MapByTitle(ref, cat, files, NormalizeTitle(Str(ref.title)))
    ELSE GuessIdFromApproaches(ref, files)

\* _map_ref_to_id with the normalized DOI of the reference
MapByDoi(ref, cat, files, doi_n) ==
    IF ref.doi # "" /\ doi_n \in DOMAIN cat.by_doi THEN cat.by_doi[doi_n]
    ELSE MapAfterDoi(ref, cat, files)

\* _map_ref_to_id
MapRefToId(ref, cat, files) == MapByDoi(ref, cat, files, NormalizeDoi(Str(ref.doi)))

\* the catalog entries a run may read.  An entry of the first title is of
\* 2019, one of the second of 2020; "" stands for a field that is absent.
EntryTitles == {"data link cell", "tree node leaf"}
EntryDois == {"", "10.1234/a", "HTTPS://dx.doi.org/10.1234/a "}
TitleYear(t) == IF t = "data link cell" THEN 2019 ELSE 2020
CatalogEntries ==
    [hasId : {TRUE}, doi : EntryDois, title : EntryTitles]
    \cup [hasId : {FALSE}, doi : {"10.1234/a"}, title : EntryTitles]

\* the references _parse_reference may hand over; year 0 stands for None
RefDois == {"", "10.1234/a", "10.1234/b"}
RefTitles == {"", "Data Link: Cell", "data link cell type", "data links cells"}
ParsedRefs == [doi : RefDois, title : RefTitles, year : {0, 2019, 2020}, firstAuthor : {"Smith"}]

\* the document directory
Listings == {<<>>, <<"2019_smith_data_link.pdf">>}

NoRef == [doi |-> "", title |-> "", year |-> 0, firstAuthor |-> ""]

\* one more entry of the catalog file
AddEntry(e) ==
    /\ mpc = "load"
    /\ Len(entries) < MaxEntries
    /\ entries' = Append(entries,
            [id |-> IF e.hasId THEN IdOf(Len(entries) + 1) ELSE <<>>,
             doi |-> e.doi, title |-> e.title, year |-> TitleYear(e.title)])
    /\ UNCHANGED <<listing, catalog, mpc, mref, mres>>

\* catalog = _build_catalog(entries, approaches_dir)
Build(files) ==
    /\ mpc = "load"
    /\ listing' = files
    /\ catalog' = BuildCatalog(entries, files)
    /\ mpc' = "ready"
    /\ UNCHANGED <<entries, mref, mres>>

\* info = _parse_reference(seg), for the next segment; its pid is not yet
\* assigned
Parsed(ref) ==
    /\ mpc \in {"ready", "mapped"}
    /\ mref' = ref
    /\ mres' = <<>>
    /\ mpc' = "parsed"
    /\ UNCHANGED <<entries, listing, catalog>>

\* pid = _map_ref_to_id(info, catalog, approaches_dir)
MapRef ==
    /\ mpc = "parsed"
    /\ mres' = MapRefToId(mref, catalog, listing)
    /\ mpc' = "mapped"
    /\ UNCHANGED <<entries, listing, catalog, mref>>

NextMap ==
    /\ \/ \E e \in CatalogEntries : AddEntry(e)
       \/ \E files \in Listings : Build(files)
       \/ \E ref \in ParsedRefs : Parsed(ref)
       \/ MapRef
    /\ UNCHANGED notMap

(* ------------------------------ the report ----------------------------- *)
\* Optional[int]: <<>> is None, <<n>> the integer n
NoInt == <<>>
IsInt(x) == x # <<>>

\* re.split on the characters of seps; w is the part being read
RECURSIVE SplitAt(_, _, _)
SplitAt(s, seps, w) ==
    IF s = <<>> THEN <<w>>
    ELSE IF s[1] \in seps THEN <<w>> \o SplitAt(Tail(s), seps, <<>>)
    ELSE SplitAt(Tail(s), seps, Append(w, s[1]))

AllIn(s, set) == \A i \in 1..Len(s) : s[i] \in set

\* int() of a string of digits
RECURSIVE IntOf(_)
IntOf(s) ==
    IF s = <<>> THEN 0
    ELSE 10 * IntOf(SubSeq(s, 1, Len(s) - 1))
         + (CHOOSE d \in 0..9 : DecimalDigits[d + 1] = s[Len(s)])

\* ID_REGEX on the parts of an id between underscores:
\* ^(\d{4})_([a-z][a-z0-9]+)_([a-z0-9][a-z0-9-]+)$
IdPartsMatch(p) ==
    /\ Len(p) = 3
    /\ Len(p[1]) = 4 /\ AllIn(p[1], ElementsOf(DecimalDigits))
    /\ Len(p[2]) >= 2 /\ p[2][1] \in ElementsOf(LowerLetters) /\ AllIn(p[2], LowerAlnum)
    /\ Len(p[3]) >= 2 /\ p[3][1] \in LowerAlnum /\ AllIn(p[3], LowerAlnum \cup {"-"})
IdRegexMatch(id) == IdPartsMatch(SplitAt(id, {"_"}, <<>>))
IdYear(id) == IntOf(SplitAt(id, {"_"}, <<>>)[1])
IdSurname(id) == SplitAt(id, {"_"}, <<>>)[2]
IdSlug(id) == SplitAt(id, {"_"}, <<>>)[3]

\* fa_norm: the first word of firstAuthor, lower case, alphanumerics only
FirstAuthorNorm(fa) == Surname(SplitAt(fa, {" "}, <<>>)[1])

\* validate_id_format on an id that is a string; year 0 stands for a year
\* that is absent or not an integer
ValidateIdFormat(id, entry) ==
    IF ~IdRegexMatch(id) THEN [valid |-> FALSE, note |-> "id_format_invalid"]
    ELSE IF entry.year # 0 /\ entry.year # IdYear(id)
    THEN [valid |-> FALSE, note |-> "year_mismatch"]
    ELSE IF /\ FirstAuthorNorm(Str(entry.firstAuthor)) # <<>>
            /\ IdSurname(id) # FirstAuthorNorm(Str(entry.firstAuthor))
    THEN [valid |-> FALSE, note |-> "surname_mismatch"]
    ELSE [valid |-> TRUE, note |-> "ok"]

\* \w
WordChars == LowerAlnum \cup ElementsOf(UpperLetters) \cup {"_"}

\* re.search(\bword\b, s)
WordIn(word, s) ==
    \E i \in 1..(Len(s) - Len(word) + 1) :
        /\ SubSeq(s, i, i + Len(word) - 1) = word
        /\ i = 1 \/ s[i - 1] \notin WordChars
        /\ i + Len(word) > Len(s) \/ s[i + Len(word)] \notin WordChars

Distance(m, n) == IF m > n THEN m - n ELSE n - m
AtMostTwo(n) == IF n > 2 THEN 2 ELSE n

\* the score of a file name in _best_pdf_match, in hundredths; year 0 stands
\* for no year, surname and tokens are empty when the id does not match
FileScore(base, id, year, surname, tokens) ==
    (IF year # 0 /\ StartsWith(base, DecStr(year) \o <<"_">>) THEN 300 ELSE 0)
    + (IF surname # <<>> /\ WordIn(surname, base) THEN 200 ELSE 0)
    + 100 * AtMostTwo(Cardinality({n \in 1..Len(tokens) :
                                      tokens[n] # <<>> /\ IsSubstring(tokens[n], base)}))
    - Distance(Len(base), Len(id))

\* the loop of _best_pdf_match: the first file of the highest score
RECURSIVE BestFile(_, _, _, _, _, _, _)
BestFileStep(files, i, id, year, surname, tokens, best, score) ==
    BestFile(files, i + 1, id, year, surname, tokens,
             IF score > best.score THEN [file |-> files[i], score |-> score] ELSE best)
BestFile(files, i, id, year, surname, tokens, best) ==
    IF i > Len(files) THEN best
    ELSE BestFileStep(files, i, id, year, surname, tokens, best,
                      FileScore(Basename(files[i]), id, year, surname, tokens))

\* _list_pdfs
ListPdfs(files) == SelectSeq(files, IsPdf)

\* _best_pdf_match after the exact name was not found; "" stands for None
BestPdfMatch(files, id, entry) ==
    IF IdRegexMatch(id)
    THEN BestFile(ListPdfs(files), 1, id,
                  IF entry.year # 0 THEN entry.year ELSE IdYear(id),
                  IdSurname(id), SplitAt(IdSlug(id), {"-", "_"}, <<>>),
                  [file |-> "", score |-> -100])
    ELSE BestFile(ListPdfs(files), 1, id, entry.year, <<>>, <<>>,
                  [file |-> "", score |-> -100])

ExactFiles(files, id) == {i \in 1..Len(files) : Str(files[i]) = id \o PdfSuffix}

FuzzyPath(best) ==
    IF best.file # "" /\ best.score >= 300
    THEN [path |-> best.file, how |-> "fuzzy"]
    ELSE [path |-> "", how |-> "not_found"]

\* pdf_path_for_id
PdfPathForId(files, id, entry) ==
    IF ExactFiles(files, id) # {}
    THEN [path |-> files[SetMin(ExactFiles(files, id))], how |-> "exact"]
    ELSE FuzzyPath(BestPdfMatch(files, id, entry))

\* a part of Counts.note: "id:...", "pdf:{how}:{note}", "pdf_missing" or
\* "online:..."; a pdf part carries ok or zero_count, the label of the
\* retained output and best_reason
NoReason == [kind |-> "", pattern |-> "", capped |-> FALSE]
NotePart(kind, v) ==
    [kind |-> kind, v |-> v, how |-> "", status |-> "", label |-> "", reason |-> NoReason]
PdfNote(how, n) ==
    [kind |-> "pdf", v |-> "", how |-> how, status |-> n.status, label |-> n.label,
     reason |-> n.reason]

\* ref_count_from_pdf on what _get_pdf_text_and_count returns.  Every
\* backend catches its exceptions, so the except branch is not taken.
RefCountOf(r) ==
    [count |-> <<r.count>>,
     note |-> [status |-> IF r.text # "none" /\ r.count > 0 THEN "ok" ELSE "zero_count",
               label |-> r.label, reason |-> r.reason]]

\* ref_count_from_pdf; each document is read under a key of its own
RefCountFromPdf(path, doc, last_pages, scan_mode, extractor) ==
    RefCountOf(GetPdfTextAndCount(<<>>, CacheKey(path, scan_mode, last_pages, extractor), doc))

\* the id compare_counts reads: entry.get("id", ""), a string
EntryId(entry) == IF entry.id.kind = "absent" THEN "" ELSE entry.id.v

\* json_count
JsonCount(entry) == IF entry.citations.isList THEN <<entry.citations.len>> ELSE NoInt

\* compare_counts from the lookup of the document on
CountsOf(entry, id_notes, how, pdf_count, pdf_notes, online, ans) ==
    [json |-> JsonCount(entry), pdf |-> pdf_count, online |-> IF online THEN ans.count ELSE NoInt,
     how |-> how,
     notes |-> id_notes \o pdf_notes
               \o (IF online THEN <<NotePart("online", ans.note)>> ELSE <<>>)]

CountsFound(entry, id_notes, how, pdf, online, ans) ==
    CountsOf(entry, id_notes, how, pdf.count, <<PdfNote(how, pdf.note)>>, online, ans)

CountsLookedUp(entry, env, id_notes, lookup, ans) ==
    IF lookup.path # ""
    THEN CountsFound(entry, id_notes, lookup.how,
                     RefCountFromPdf(lookup.path, env.doc, env.last_pages, env.scan_mode,
                                     env.extractor),
                     env.online, ans)
    ELSE CountsOf(entry, id_notes, lookup.how, NoInt, <<NotePart("pdf_missing", "")>>,
                  env.online, ans)

IdNotes(valid) == IF valid.valid THEN <<>> ELSE <<NotePart("id", valid.note)>>

\* compare_counts on an entry whose id is a string
CompareCounts(entry, env, ans) ==
    CountsLookedUp(entry, env, IdNotes(ValidateIdFormat(Str(EntryId(entry)), entry)),
                   PdfPathForId(env.files, Str(EntryId(entry)), entry), ans)

\* best_label, best_count: the first of pdf and online that is an integer
\* not below zero
BestOf(counts) ==
    IF IsInt(counts.pdf) /\ counts.pdf[1] >= 0 THEN [label |-> "pdf", count |-> counts.pdf]
    ELSE IF IsInt(counts.online) /\ counts.online[1] >= 0
    THEN [label |-> "online", count |-> counts.online]
    ELSE [label |-> "", count |-> NoInt]

\* "pdf_missing" in reason
HasPdfMissingNever(notes) == FALSE
HasPdfMissing(notes) == \E i \in 1..Len(notes) : notes[i].kind = "pdf_missing"

\* if json_c != best_count, taken as json_c < best_count
DiffersBelow(json_c, best_count) ==
    json_c # <<>> /\ best_count # <<>> /\ json_c[1] < best_count[1]
\* if json_c != best_count
Differs(json_c, best_count) == json_c # best_count

Verdict(counts, best) ==
    IF ~IsInt(best.count) THEN "unresolved"
    ELSE IF Differs(counts.json, best.count) THEN "mismatch" ELSE "match"

\* a report that lists every entry
BlockOfAll(counts, best, verdict) ==
    [kind |-> verdict,
     json |-> counts.json, pdf |-> counts.pdf, online |-> counts.online,
     label |-> best.label, best |-> best.count, note |-> counts.notes]

\* the block the report lists for the entry; of a match there is none
Block(counts, best, verdict) ==
    [kind |-> IF verdict = "match" THEN "none" ELSE verdict,
     json |-> counts.json, pdf |-> counts.pdf, online |-> counts.online,
     label |-> best.label, best |-> best.count, note |-> counts.notes]

\* what the loop body makes of the entry
Outcome(counts, best, verdict) ==
    [counts |-> counts, best |-> best, verdict |-> verdict,
     block |-> Block(counts, best, verdict)]
OutcomeOfBest(counts, best) == Outcome(counts, best, Verdict(counts, best))
OutcomeOf(counts) == OutcomeOfBest(counts, BestOf(counts))

\* Counted with an entry without document counted as a failure as well
CountedTwice(t, o) ==
    [processed |-> t.processed + 1,
     mismatches |-> t.mismatches + (IF o.verdict = "mismatch" THEN 1 ELSE 0),
     missing_pdf |-> t.missing_pdf
        + (IF o.verdict = "unresolved" /\ HasPdfMissing(o.counts.notes) THEN 1 ELSE 0),
     parse_fail |-> t.parse_fail + (IF o.verdict = "unresolved" THEN 1 ELSE 0)]

\* the counters after the entry
Counted(t, o) ==
    [processed |-> t.processed + 1,
     mismatches |-> t.mismatches + (IF o.verdict = "mismatch" THEN 1 ELSE 0),
     missing_pdf |-> t.missing_pdf
        + (IF o.verdict = "unresolved" /\ HasPdfMissing(o.counts.notes) THEN 1 ELSE 0),
     parse_fail |-> t.parse_fail
        + (IF o.verdict = "unresolved" /\ ~HasPdfMissing(o.counts.notes) THEN 1 ELSE 0)]

NoTotals == [processed |-> 0, mismatches |-> 0, missing_pdf |-> 0, parse_fail |-> 0]
NoCounts == [json |-> NoInt, pdf |-> NoInt, online |-> NoInt, how |-> "", notes |-> <<>>]
NoOutcome ==
    [counts |-> NoCounts, best |-> [label |-> "", count |-> NoInt], verdict |-> "",
     block |-> [kind |-> "none", json |-> NoInt, pdf |-> NoInt, online |-> NoInt,
                label |-> "", best |-> NoInt, note |-> <<>>]]

\* the documents of the directory: without text, with a located list of
\* references, with prose only
NoTextDoc == [tail |-> "none", full |-> "none", miner |-> "none", ptt |-> "none"]
ReportDocs ==
    { NoTextDoc,
      [tail |-> "none", full |-> "located_small", miner |-> "none", ptt |-> "none"],
      [tail |-> "none", full |-> "prose", miner |-> "none", ptt |-> "none"] }

\* a run: main passes --scan-mode full, --extractor tutti as auto and
\* --last-pages 8 unless told otherwise
ReportEnvs ==
    [online : BOOLEAN, files : {<<>>}, doc : {NoTextDoc},
     scan_mode : {"full"}, extractor : {"auto"}, last_pages : {DefaultLastPages}]
    \cup [online : BOOLEAN,
          files : {<<"2019_smith_data-link.pdf">>, <<"2019_smith_data_link.pdf">>},
          doc : ReportDocs,
          scan_mode : {"full"}, extractor : {"auto"}, last_pages : {DefaultLastPages}]

\* the entries of the catalog file: the id is absent, null or a string
EntryIds ==
    { [kind |-> "absent", v |-> ""], [kind |-> "null", v |-> ""],
      [kind |-> "str", v |-> "2019_smith_data-link"] }
DeclaredCitations ==
    { [isList |-> FALSE, len |-> 0], [isList |-> TRUE, len |-> 0],
      [isList |-> TRUE, len |-> SmallRefs] }
ReportEntries ==
    [id : EntryIds, year : {2019, 2020}, firstAuthor : {"Smith"},
     citations : DeclaredCitations]

\* what ref_count_from_crossref returns
OnlineAnswers ==
    { [count |-> NoInt, note |-> "crossref_not_found"],
      [count |-> NoInt, note |-> "crossref_error"],
      [count |-> <<SmallRefs>>, note |-> "crossref_by_doi"],
      [count |-> <<-1>>, note |-> "crossref_by_doi"] }
NoAnswer == [count |-> NoInt, note |-> ""]

\* build_report is called
RunStart(env) ==
    /\ rpc = "start"
    /\ renv' = env
    /\ rpc' = "loop"
    /\ UNCHANGED <<rread, rentry, rtotals, rlast, rblocks>>

\* for entry in entries: the next entry of the catalog, and what Crossref
\* would answer for it
ReadEntry(e, ans) ==
    /\ rpc = "loop"
    /\ rread < MaxEntries
    /\ renv.online \/ ans = NoAnswer
    /\ rentry' = [entry |-> e, ans |-> ans]
    /\ rread' = rread + 1
    /\ rlast' = NoOutcome
    /\ rpc' = "entry"
    /\ UNCHANGED <<renv, rtotals, rblocks>>

\* the body of the loop.  With an id that is null validate_id_format raises
\* TypeError, which nothing catches: build_report ends there.
ProcessEntry ==
    /\ rpc = "entry"
    /\ IF rentry.entry.id.kind = "null"
       THEN /\ rtotals' = [rtotals EXCEPT !.processed = @ + 1]
            /\ rpc' = "raised"
            /\ UNCHANGED <<rlast, rblocks>>
       ELSE /\ rlast' = OutcomeOf(CompareCounts(rentry.entry, renv, rentry.ans))
            /\ rtotals' = Counted(rtotals, rlast')
            /\ rblocks' = rblocks + (IF rlast'.block.kind = "none" THEN 0 ELSE 1)
            /\ rpc' = "loop"
    /\ UNCHANGED <<renv, rread, rentry>>

\* after the last entry: the summary
Finish ==
    /\ rpc = "loop"
    /\ rpc' = "done"
    /\ UNCHANGED <<renv, rread, rentry, rtotals, rlast, rblocks>>

NextReport ==
    /\ \/ \E env \in ReportEnvs : RunStart(env)
       \/ \E e \in ReportEntries, ans \in OnlineAnswers \cup {NoAnswer} : ReadEntry(e, ans)
       \/ ProcessEntry
       \/ Finish
    /\ UNCHANGED notRep

(* ------------------------------ annotate_json -------------------------- *)
\* best, best_src: the first of pdf and online that is an integer
AnnotationBest(counts) ==
    IF IsInt(counts.pdf) THEN [label |-> "pdf", count |-> counts.pdf]
    ELSE IF IsInt(counts.online) THEN [label |-> "online", count |-> counts.online]
    ELSE [label |-> "", count |-> NoInt]

\* isinstance(counts.json, int) and isinstance(best, int) and counts.json != best
AnnotationOff(counts, best) ==
    IsInt(counts.json) /\ IsInt(best.count) /\ counts.json # best.count

\* ann, and whether the entry is counted as a mismatch
AnnotationOf(counts, best) ==
    [json |-> counts.json, pdf |-> counts.pdf, online |-> counts.online,
     best |-> best.count, source |-> best.label, note |-> counts.notes,
     off |-> AnnotationOff(counts, best)]

Annotation(counts) == AnnotationOf(counts, AnnotationBest(counts))

NoAnnotation == Annotation(NoCounts)

\* the loop body of annotate_json on the entry build_report has just
\* counted.  No entry of the file carries citationCountVerified, so each is
\* modified.
AnnotateEntry ==
    /\ rpc = "loop"
    /\ aread < rread
    /\ alast' = Annotation(CompareCounts(rentry.entry, renv, rentry.ans))
    /\ atotals' = [modified |-> atotals.modified + 1,
                   mismatches |-> atotals.mismatches + (IF alast'.off THEN 1 ELSE 0)]
    /\ aread' = rread
    /\ UNCHANGED repVars

\* build_report and annotate_json over the same entries, entry by entry
NextAgree ==
    /\ \/ (\E env \in ReportEnvs : RunStart(env)) /\ UNCHANGED annVars
       \/ /\ aread = rread
          /\ \E e \in ReportEntries, ans \in OnlineAnswers \cup {NoAnswer} : ReadEntry(e, ans)
          /\ UNCHANGED annVars
       \/ ProcessEntry /\ UNCHANGED annVars
       \/ AnnotateEntry
       \/ aread = rread /\ Finish /\ UNCHANGED annVars
    /\ UNCHANGED notAgree

(* -------------------------- the reference parser ----------------------- *)
\* the pieces a reference segment is put together from
Pieces == {"marker", "author", "year", "title", "venue", "in", "acm", "pages", "vol"}

PieceChars(p) ==
    CASE p = "marker" ->
            <<"[", "1", "2", "]", " ">>
      [] p = "author" ->
            <<"S", "m", "i", "t", "h", ",", " ", "J", ".", " ">>
      [] p = "year" ->
            <<"(", "2", "0", "1", "9", "a", ")", ".", " ">>
      [] p = "title" ->
            <<"D", "e", "e", "p", " ", "d", "a", "t", "a", " ", "l", "i", "n", "k", "s", ".", " ">>
      [] p = "venue" ->
            <<"P", "r", "o", "c", "e", "e", "d", "i", "n", "g", "s", " ", "o", "f", " ", "X", ".", " ">>
      [] p = "in" ->
            <<"I", "n", " ", "v", "i", "v", "o", ".", " ">>
      [] p = "acm" ->
            <<"A", "C", "M", ".", " ">>
      [] p = "pages" ->
            <<"p", "p", ".", " ", "1", "-", "9", ",", " ", "2", "0", "2", "0", ".", " ">>
      [] p = "vol" ->
            <<"V", "o", "l", ".", " ", "1", "2", " ", "n", "o", " ", "3", ".", " ">>

RECURSIVE SegChars(_)
SegChars(ps) == IF ps = <<>> THEN <<>> ELSE PieceChars(Head(ps)) \o SegChars(Tail(ps))

IsDigit(c) == c \in ElementsOf(DecimalDigits)

\* the number of leading characters of s that are digits
RECURSIVE LeadingDigits(_)
LeadingDigits(s) == IF s # <<>> /\ IsDigit(s[1]) THEN 1 + LeadingDigits(Tail(s)) ELSE 0

\* what "\[\s*\d{1,3}\s*\]" leaves of s, which begins after the bracket;
\* <<"no">> stands for no match
AfterLabel(s, nd) ==
    IF nd >= 1 /\ nd <= 3 /\ StartsWith(LStrip(DropFirst(s, nd)), <<"]">>)
    THEN <<"ok", LStrip(DropFirst(LStrip(DropFirst(s, nd)), 1))>>
    ELSE <<"no">>

\* what "\d{1,3}[\.)]" leaves of s
AfterNumeral(s, nd) ==
    IF nd >= 1 /\ nd <= 3 /\ Len(s) > nd /\ s[nd + 1] \in {".", ")"}
    THEN <<"ok", LStrip(DropFirst(s, nd + 1))>>
    ELSE <<"no">>

MarkerMatch(s) ==
    IF StartsWith(s, <<"[">>)
    THEN AfterLabel(LStrip(DropFirst(s, 1)), LeadingDigits(LStrip(DropFirst(s, 1))))
    ELSE AfterNumeral(s, LeadingDigits(s))

\* seg_clean: the segment stripped, without its leading list marker
Cleaned(m, s) == IF m[1] = "ok" THEN m[2] ELSE s
SegClean(seg) == Cleaned(MarkerMatch(StripStr(seg)), StripStr(seg))

\* (19|20)\d{2}[a-z]? matches at position i of s
YearAt(s, i) ==
    /\ i + 3 <= Len(s)
    /\ SubSeq(s, i, i + 1) \in {<<"1", "9">>, <<"2", "0">>}
    /\ IsDigit(s[i + 2]) /\ IsDigit(s[i + 3])

\* myear.start(), 0 when the search finds nothing
YearStart(s) ==
    IF \E i \in 1..Len(s) : YearAt(s, i)
    THEN SetMin({i \in 1..Len(s) : YearAt(s, i)}) ELSE 0

\* the first position after the match that begins at i
YearEnd(s, i) ==
    IF i + 4 <= Len(s) /\ s[i + 4] \in ElementsOf(LowerLetters) THEN i + 5 ELSE i + 4

DigitValue(c) == (CHOOSE n \in 1..10 : DecimalDigits[n] = c) - 1

\* int(myear.group(0)[:4])
YearValue(s, i) ==
    1000 * DigitValue(s[i]) + 100 * DigitValue(s[i + 1])
    + 10 * DigitValue(s[i + 2]) + DigitValue(s[i + 3])

\* tail: what follows the year, or the whole segment
TailAfter(s, i) == IF i = 0 THEN s ELSE SubSeq(s, YearEnd(s, i), Len(s))

\* [p.strip() for p in tail.split('.') if p.strip()]
Stripped(ps) == [n \in 1..Len(ps) |-> StripStr(ps[n])]
Parts(tail) == SelectSeq(Stripped(SplitAt(tail, {"."}, <<>>)), LAMBDA q : q # <<>>)

\* venue_markers, in lower case
VenueMarkers ==
    { <<"p", "r", "o", "c", "e", "e", "d", "i", "n", "g", "s">>,
      <<"i", "n", " ">>,
      <<"a", "r", "x", "i", "v">>,
      <<"a", "c", "m">>,
      <<"i", "e", "e", "e">>,
      <<"s", "p", "r", "i", "n", "g", "e", "r">>,
      <<"j", "o", "u", "r", "n", "a", "l">>,
      <<"v", "o", "l", "u", "m", "e">>,
      <<"v", "o", "l", ".">>,
      <<"n", "o", ".">>,
      <<"p", "p", ".">>,
      <<"h", "t", "t", "p", ":", "/", "/">>,
      <<"h", "t", "t", "p", "s", ":", "/", "/">> }

VenueMarked(q) == \E k \in VenueMarkers : StartsWith(LowerStr(q), k)

\* TitleOf with a venue part ending the search
RECURSIVE TitleOfFirstOnly(_)
TitleOfFirstOnly(parts) ==
    IF parts = <<>> THEN <<>>
    ELSE IF Len(Head(parts)) < 6 THEN TitleOfFirstOnly(Tail(parts))
    ELSE IF VenueMarked(Head(parts)) THEN <<>>
    ELSE Head(parts)

\* the loop over parts: the first part of six characters or more that no
\* venue marker begins; <<>> stands for None
RECURSIVE TitleOf(_)
TitleOf(parts) ==
    IF parts = <<>> THEN <<>>
    ELSE IF Len(Head(parts)) < 6 \/ VenueMarked(Head(parts)) THEN TitleOf(Tail(parts))
    ELSE Head(parts)

\* _parse_reference: the fields year and title of what it returns
ParseOver(s, i) ==
    [year |-> IF i = 0 THEN <<>> ELSE <<YearValue(s, i)>>,
     title |-> TitleOf(Parts(TailAfter(s, i)))]

ParseReference(seg) == ParseOver(SegClean(seg), YearStart(SegClean(seg)))

\* info = _parse_reference(seg) on the segment extended by one piece
ParseSegment(piece) ==
    /\ Len(pseg) < MaxPieces
    /\ pseg' = Append(pseg, piece)
    /\ pinfo' = ParseReference(SegChars(pseg'))

NextParse == (\E piece \in Pieces : ParseSegment(piece)) /\ UNCHANGED notParse

(* ----------------------------- a run of main --------------------------- *)
\* if (text is None or len(text) < 1000)
FullTextMin == 1000

TextLen(out) == JoinedLen(SampleText(out))

\* the text extract_and_map_citations_for_entry segments: that of pypdf on
\* all pages, replaced by a longer one of pdfminer, then of pdftotext, while
\* it is shorter than 1000 characters
LongerText(t, other) ==
    IF TextLen(t) < FullTextMin /\ other # "none" /\ TextLen(other) > TextLen(t)
    THEN other ELSE t

ExtractedText(doc) == LongerText(LongerText(doc.full, doc.miner), doc.ptt)

\* the citations extract_and_map_citations_for_entry returns, held by their
\* number: one for every segment of the text
CitationsIn(path, t) ==
    IF path = "" \/ t = "none" THEN 0
    ELSE Len(ExtractReferenceSegments(SampleText(t)))

ExtractAndMapCitationsForEntry(entry, env) ==
    CitationsIn(PdfPathForId(env.files, Str(EntryId(entry)), entry).path,
                ExtractedText(env.doc))

\* build_report over the entries: the totals of the report, when no entry
\* makes it raise
RECURSIVE BuildReport(_, _, _, _)
BuildReport(es, env, i, t) ==
    IF i > Len(es) THEN t
    ELSE BuildReport(es, env, i + 1,
                     Counted(t, OutcomeOf(CompareCounts(es[i], env, NoAnswer))))

ReportRaises(es) == \E i \in 1..Len(es) : es[i].id.kind = "null"

\* entries = [e for e in entries if e.get("id") in wanted], when wanted
Wanted(es, only_id) ==
    IF only_id = {} THEN es
    ELSE SelectSeq(es, LAMBDA e : e.id.kind = "str" /\ e.id.v \in only_id)

\* the ids of the loop over entries: if not pid: continue
Truthy(es) == {i \in 1..Len(es) : es[i].id.kind = "str" /\ es[i].id.v # ""}

\* extracted after the loop; of two entries of one id the later one stays
Extracted(es, env) ==
    [pid \in {es[i].id.v : i \in Truthy(es)} |->
        ExtractAndMapCitationsForEntry(
            es[SetMax({i \in Truthy(es) : es[i].id.v = pid})], env)]

\* obj with extractedCitationsCount set to the count of its id
WithCount(obj, counts_by_id) ==
    IF /\ obj.id.kind = "str"
       /\ obj.id.v \in DOMAIN counts_by_id
       /\ obj.extractedCitationsCount # <<counts_by_id[obj.id.v]>>
    THEN [obj EXCEPT !.extractedCitationsCount = <<counts_by_id[obj.id.v]>>]
    ELSE obj

\* updated
Updated(original, counts_by_id) ==
    [i \in 1..Len(original) |-> WithCount(original[i], counts_by_id)]

\* the directory of a run without documents
NoDirectory ==
    [online |-> FALSE, files |-> <<>>, doc |-> NoTextDoc,
     scan_mode |-> "full", extractor |-> "auto", last_pages |-> DefaultLastPages]

\* the catalog files main may be started on: entries with the count of their
\* extracted citations absent or stored by an earlier run
StoredCounts == {NoInt, <<0>>, <<1>>}
MainEntries ==
    [id : EntryIds, year : {2019}, firstAuthor : {"Smith"},
     citations : {[isList |-> TRUE, len |-> SmallRefs]},
     extractedCitationsCount : StoredCounts]
MainCatalogs == UNION {[1..n -> MainEntries] : n \in 0..MaxEntries}
MainEnvs == {env \in ReportEnvs : ~env.online}
OnlyIds == {{}, {"2019_smith_data-link"}}

\* main is started on a catalog file and a directory: entries = load_json,
\* all_entries = list(entries)
MainLoad(file, env, only_id) ==
    /\ mainpc = "start"
    /\ fjson' = file
    /\ margs' = [env |-> env, only_id |-> only_id]
    /\ mloaded' = file
    /\ mainpc' = "loaded"
    /\ UNCHANGED <<freport, fextracted, mextracted, mret>>

\* build_report and the writing of the report; an id of null ends the run
\* with the TypeError of validate_id_format
MainReport ==
    /\ mainpc = "loaded"
    /\ IF ReportRaises(Wanted(mloaded, margs.only_id))
       THEN /\ mainpc' = "raised"
            /\ UNCHANGED freport
       ELSE /\ freport' = <<BuildReport(Wanted(mloaded, margs.only_id), margs.env, 1, NoTotals)>>
            /\ mainpc' = "reported"
    /\ UNCHANGED <<fjson, fextracted, margs, mloaded, mextracted, mret>>

\* the loop that extracts the citations of every entry with an id
MainExtract ==
    /\ mainpc = "reported"
    /\ mextracted' = Extracted(Wanted(mloaded, margs.only_id), margs.env)
    /\ mainpc' = "extracted"
    /\ UNCHANGED <<fjson, freport, fextracted, margs, mloaded, mret>>

\* json.dump(extracted, f)
MainSave ==
    /\ mainpc = "extracted"
    /\ fextracted' = <<mextracted>>
    /\ mainpc' = "saved"
    /\ UNCHANGED <<fjson, freport, margs, mloaded, mextracted, mret>>

\* the directory reports cannot be written: return 3
MainSaveFails ==
    /\ mainpc = "extracted"
    /\ mret' = <<3>>
    /\ mainpc' = "done"
    /\ UNCHANGED <<fjson, freport, fextracted, margs, mloaded, mextracted>>

\* the catalog file is read again and, when a count differs, written with
\* extractedCitationsCount set for the entries extracted; return 0
MainUpdate ==
    /\ mainpc = "saved"
    /\ fjson' = Updated(fjson, mextracted)
    /\ mret' = <<0>>
    /\ mainpc' = "done"
    /\ UNCHANGED <<freport, fextracted, margs, mloaded, mextracted>>

NextMain ==
    /\ \/ \E file \in MainCatalogs, env \in MainEnvs, only_id \in OnlyIds :
            MainLoad(file, env, only_id)
       \/ MainReport
       \/ MainExtract
       \/ MainSave
       \/ MainSaveFails
       \/ MainUpdate
    /\ UNCHANGED notMain

(* ----------------------- the offsets of the segments -------------------- *)
\* m.start() of the anchor on line i.  The blanks that end an anchor reach
\* over line breaks: after a line that holds a marker alone, the next anchor
\* is matched at its line start, the newline before it being spent.
AnchorStart(b, i) ==
    IF \E j \in 1..(i - 1) :
          /\ IsAnchorLine(b[j]) /\ Len(b[j]) = 1
          /\ \A k \in (j + 1)..(i - 1) : b[k] = <<>>
    THEN LineStart(b, i)
    ELSE MatchStart(b, i)

\* a segment that ends with the line of its anchor
SegmentEndOwnLine(b, sgs, n) == LineStart(b, sgs[n].from) + LineLen(b[sgs[n].from])

\* end = anchors[i + 1][0] if i + 1 < len(anchors) else len(block_text)
SegmentEnd(b, sgs, n) ==
    IF n < Len(sgs) THEN AnchorStart(b, sgs[n + 1].from) ELSE JoinedLen(b)

\* the (pos, end, num) of the tuples _segment_references returns
OffsetsOf(b, sgs) ==
    [n \in 1..Len(sgs) |->
        [pos |-> AnchorStart(b, sgs[n].from), end |-> SegmentEnd(b, sgs, n), num |-> sgs[n].num]]

SegmentOffsets(b) == OffsetsOf(b, SegmentReferences(b))

(* --------------------------- specifications ---------------------------- *)
Init ==
    /\ block = <<>>
    /\ cres = CountEntriesInBlock(<<>>)
    /\ text = <<>>
    /\ segments = <<>>
    /\ raw = <<>>
    /\ norm1 = <<>>
    /\ norm2 = <<>>
    /\ cache = <<>>
    /\ calls = 0
    /\ opc = "idle"
    /\ okey = CacheKey("a.pdf", "auto", DefaultLastPages, "auto")
    /\ odoc = [tail |-> "none", full |-> "none", miner |-> "none", ptt |-> "none"]
    /\ otexts = <<>>
    /\ oidx = 1
    /\ obest = NoResult
    /\ oevald = <<>>
    /\ oret = NoResult
    /\ entries = <<>>
    /\ listing = <<>>
    /\ catalog = BuildCatalog(<<>>, <<>>)
    /\ mpc = "load"
    /\ mref = NoRef
    /\ mres = <<>>
    /\ renv = [online |-> FALSE, files |-> <<>>, doc |-> NoTextDoc,
               scan_mode |-> "full", extractor |-> "auto", last_pages |-> DefaultLastPages]
    /\ rpc = "start"
    /\ rread = 0
    /\ rentry = [entry |-> [id |-> [kind |-> "absent", v |-> ""], year |-> 2019,
                            firstAuthor |-> "Smith",
                            citations |-> [isList |-> TRUE, len |-> 0]],
                 ans |-> NoAnswer]
    /\ rtotals = NoTotals
    /\ rlast = NoOutcome
    /\ rblocks = 0
    /\ fjson = <<>>
    /\ freport = <<>>
    /\ fextracted = <<>>
    /\ margs = [env |-> NoDirectory, only_id |-> {}]
    /\ mloaded = <<>>
    /\ mextracted = <<>>
    /\ mainpc = "start"
    /\ mret = <<>>
    /\ pseg = <<>>
    /\ pinfo = ParseReference(<<>>)
    /\ aread = 0
    /\ alast = NoAnnotation
    /\ atotals = [modified |-> 0, mismatches |-> 0]

SpecCount == Init /\ [][NextCount]_vars
SpecLabels == Init /\ [][NextLabels]_vars
SpecMixed == Init /\ [][NextMixed]_vars
SpecSeg == Init /\ [][NextSeg]_vars
SpecNorm == Init /\ [][NextNorm]_vars
SpecOrch == Init /\ [][NextOrch]_vars
SpecMap == Init /\ [][NextMap]_vars
SpecReport == Init /\ [][NextReport]_vars
SpecMain == Init /\ [][NextMain]_vars
SpecParse == Init /\ [][NextParse]_vars
SpecAgree == Init /\ [][NextAgree]_vars

(* ------------------------------- claims -------------------------------- *)
\* a line of at least 40 characters with a year and a bibliographic marker
RefShapedLine(line) ==
    /\ StrippedLen(<<line>>) >= 40
    /\ KindsIn(<<line>>) \cap {"YR", "YRP", "CORP"} # {}
    /\ KindsIn(<<line>>) \cap {"MRK", "DOI"} # {}

\* lines "[1] ..." to "[n] ...", n >= 1, each reference-shaped
NumberedRefBlock(b) ==
    /\ b # <<>>
    /\ \A i \in 1..Len(b) : b[i] # <<>> /\ Head(b[i]) = Tok("SQ", i) /\ RefShapedLine(b[i])

\* C1 as claimed: every block "[1] ..." to "[n] ..." of reference-shaped
\* lines is counted as n.
C1_AsClaimed == NumberedRefBlock(block) => cres.count = Len(block)

\* C1 (amended): a block "[1] ..." to "[n] ..." of reference-shaped lines is
\* counted as n when no bracketed numeral above n occurs in it and, for
\* n < 5, it holds fewer than 5 distinct DOIs.
C1_CountIsN ==
    ( /\ NumberedRefBlock(block)
      /\ \A v \in UniqLabels(block) : v <= Len(block)
      /\ (Len(block) >= 5 \/ Cardinality(UniqDois(block)) < 5) )
    => cres.count = Len(block)

\* a block of fewer than 5 lines whose DOIs outnumber its lines, counted
\* as n through the cap
C1_Witness ==
    /\ NumberedRefBlock(block)
    /\ Len(block) < 5
    /\ \A v \in UniqLabels(block) : v <= Len(block)
    /\ Cardinality(UniqDois(block)) \in (Len(block) + 1)..4
    /\ cres.capped
    /\ cres.count = Len(block)

\* the bracketed numerals that occur in the block
ObservedLabels(b) == {t.v : t \in {u \in TokensIn(b) : u.k = "SQ"}}

\* the numerals of the anchor segments that pass the reference filter
ObservedSegLabels(b) ==
    {Head(b[i]).v : i \in {j \in 1..Len(b) :
        /\ IsAnchorLine(b[j])
        /\ \E n \in ValidSegs(b) : SegmentReferences(b)[n].from = j}}

IsUnbrokenRun(S) == S # {} /\ \A v \in SetMin(S)..SetMax(S) : v \in S

InUnitInterval(r) == r.num >= 0 /\ r.den > 0 /\ r.num <= r.den

\* C2 as claimed: both ratios lie in [0, 1] and a ratio is 1.0 exactly when
\* the observed labels form an unbroken run min..max.
C2_AsClaimed ==
    /\ InUnitInterval(cres.contig) /\ InUnitInterval(cres.contig_all)
    /\ (cres.contig.num = cres.contig.den) <=> IsUnbrokenRun(ObservedSegLabels(block))
    /\ (cres.contig_all.num = cres.contig_all.den) <=> IsUnbrokenRun(ObservedLabels(block))

\* C2 (amended): both ratios lie in [0, 1] and a ratio is 1.0 exactly when
\* the observed labels greater than zero form an unbroken run min..max.
C2_ContigRatios ==
    /\ InUnitInterval(cres.contig) /\ InUnitInterval(cres.contig_all)
    /\ (cres.contig.num = cres.contig.den) <=> IsUnbrokenRun(ObservedSegLabels(block) \ {0})
    /\ (cres.contig_all.num = cres.contig_all.den) <=> IsUnbrokenRun(ObservedLabels(block) \ {0})

\* labels 1..3 all seen, the middle one on a line that fails the filter:
\* contig_all is 1.0 and contig_ratio is 2/3
C2_Witness ==
    /\ Cardinality(ObservedLabels(block)) >= 3
    /\ cres.contig_all.num = cres.contig_all.den
    /\ cres.contig.num = 2 /\ cres.contig.den = 3

HasYear(lines) == KindsIn(lines) \cap {"YR", "YRP", "CORP"} # {}

\* C3: every segment returned for extraction has at least 40 characters and
\* contains a 4-digit year.
C3_SegmentsFiltered ==
    \A n \in 1..Len(segments) : segments[n].len >= 40 /\ HasYear(segments[n].lines)

\* C5: the normalizer is idempotent, N(N(t)) = N(t) for every text t.
C5_Idempotent == norm2 = norm1

\* the evaluated outputs with the highest score
TopScored(ev) == {i \in 1..Len(ev) : \A j \in 1..Len(ev) : ev[j].score <= ev[i].score}

\* C6: after a call that evaluated some outputs, the retained output is one
\* with the highest score among those evaluated and, among those with that
\* score, the earliest in backend order.
C6_RetainsFirstBest ==
    (opc = "idle" /\ calls > 0 /\ oevald # <<>>)
    => oret.label = oevald[SetMin(TopScored(oevald))].label

\* the entries whose DOI, normalized, is the normalized DOI of the reference
DoiMatches == {n \in 1..Len(entries) :
                  /\ entries[n].doi # ""
                  /\ NormalizeDoi(Str(entries[n].doi)) = NormalizeDoi(Str(mref.doi))}

\* C4 as claimed: a reference whose normalized DOI is that of a catalog
\* entry E is mapped to the identifier of E
C4_AsClaimed ==
    (mpc = "mapped" /\ mref.doi # "")
    => \A n \in DoiMatches : mres = entries[n].id

\* C4: a reference whose normalized DOI is that of catalog entries that have
\* an identifier is mapped to the identifier of the last of them, whatever
\* its title, year and author and whatever the other entries and the files;
\* and what a reference is mapped to is a function of the reference, the
\* catalog entries and the directory listing
C4_DoiFirst ==
    /\ (mpc = "mapped" /\ mref.doi # "" /\ DoiMatches \cap WithId(entries) # {})
       => mres = entries[SetMax(DoiMatches \cap WithId(entries))].id
    /\ mpc = "mapped" => mres = MapRefToId(mref, BuildCatalog(entries, listing), listing)

\* a reference whose DOI is that of the last entry and whose title is that
\* of the first, in a directory with a file of its year, author and words
C4_Witness ==
    /\ mpc = "mapped" /\ mref.doi # "" /\ mref.year # 0
    /\ Len(entries) = 2 /\ DoiMatches = {2} /\ WithId(entries) = {1, 2}
    /\ NormalizeTitle(Str(mref.title)) = NormalizeTitle(Str(entries[1].title))
    /\ GuessIdFromApproaches(mref, listing) # <<>>
    /\ mres = entries[2].id

\* the loop body has just made rlast of the entry at hand
EntryProcessed == rpc = "entry" /\ rpc' = "loop"

\* C7: an entry whose document is found but for which no backend produced
\* any text is classified as unresolved, whatever its declared count
C7_NoTextUnresolved ==
    ( /\ rlast.counts.how \in {"exact", "fuzzy"}
      /\ BackendTexts(renv.doc, renv.scan_mode, renv.last_pages, renv.extractor) = <<>> )
    => rlast.verdict = "unresolved"

\* C8: with online lookup disabled, an entry for which neither the exact nor
\* the fuzzy lookup finds a document is listed as unresolved, its note
\* contains pdf_missing, and Missing PDFs grows by one for it
C8_MissingPdf ==
    [][ (EntryProcessed /\ ~renv.online /\ rlast'.counts.how = "not_found")
        => /\ rlast'.verdict = "unresolved"
           /\ rlast'.block.kind = "unresolved"
           /\ \E i \in 1..Len(rlast'.block.note) : rlast'.block.note[i].kind = "pdf_missing"
           /\ rtotals'.missing_pdf = rtotals.missing_pdf + 1 ]_vars

\* the second entry of a run without online lookup has no document, after a
\* first entry that has one
C8_Witness ==
    /\ ~renv.online /\ rlast.counts.how = "not_found"
    /\ rlast.block.kind = "unresolved"
    /\ rtotals.processed = 2 /\ rtotals.missing_pdf = 1

\* a note carries the counter's rationale: a pdf part whose reason names the
\* pattern chosen by _count_entries_in_block
CarriesRationale(notes) ==
    \E i \in 1..Len(notes) : notes[i].kind = "pdf" /\ notes[i].reason.pattern # ""

\* the best estimate is the document count of a retained backend output
BestIsRetainedOutput(o) ==
    /\ o.best.label = "pdf"
    /\ \E i \in 1..Len(o.counts.notes) :
          o.counts.notes[i].kind = "pdf" /\ o.counts.notes[i].label # "none"

BothAvailable(o) == IsInt(o.counts.json) /\ IsInt(o.best.count)

\* the block of a mismatch: the declared count, the best estimate with its
\* label, and the note of the entry
MismatchBlock(o) ==
    /\ o.verdict = "mismatch" /\ o.block.kind = "mismatch"
    /\ o.block.json = o.counts.json
    /\ o.block.best = o.best.count /\ o.block.label = o.best.label
    /\ o.block.note = o.counts.notes

\* C9 as claimed: when the declared count and the best estimate are both
\* available and differ, a mismatch is counted and its block holds both
\* counts, the label and the note with the counter's rationale; when they
\* are equal no mismatch is counted
C9_AsClaimed ==
    [][ EntryProcessed
        => /\ (BothAvailable(rlast') /\ rlast'.counts.json # rlast'.best.count)
              => /\ MismatchBlock(rlast') /\ CarriesRationale(rlast'.block.note)
                 /\ rtotals'.mismatches = rtotals.mismatches + 1
           /\ (BothAvailable(rlast') /\ rlast'.counts.json = rlast'.best.count)
              => rtotals'.mismatches = rtotals.mismatches ]_vars

\* C9: when the declared count and the best estimate are both available and
\* differ, a mismatch is counted and its block holds both counts, the label
\* and the note of the entry, which carries the counter's rationale when the
\* best estimate is the document count of a retained backend output; when
\* they are equal no mismatch is counted
C9_Mismatch ==
    [][ EntryProcessed
        => /\ (BothAvailable(rlast') /\ rlast'.counts.json # rlast'.best.count)
              => /\ MismatchBlock(rlast')
                 /\ BestIsRetainedOutput(rlast') => CarriesRationale(rlast'.block.note)
                 /\ rtotals'.mismatches = rtotals.mismatches + 1
           /\ (BothAvailable(rlast') /\ rlast'.counts.json = rlast'.best.count)
              => rtotals'.mismatches = rtotals.mismatches ]_vars

\* a declared count above the document count of a retained output, after an
\* entry whose counts agree
C9_Witness ==
    /\ rpc = "loop" /\ BothAvailable(rlast) /\ BestIsRetainedOutput(rlast)
    /\ rlast.counts.json = <<0>> /\ rlast.best.count = <<SmallRefs>>
    /\ MismatchBlock(rlast) /\ CarriesRationale(rlast.block.note)
    /\ rtotals.processed = 2 /\ rtotals.mismatches = 1

\* C10: whatever entries fail, build_report raises no exception and ends
\* with Processed equal to the number of entries
C10_NoAbort ==
    /\ rpc # "raised"
    /\ rpc = "done" => rtotals.processed = rread

\* a call of _get_pdf_text_and_count that finds its key in the cache
CacheHit == opc = "idle" /\ calls' = calls + 1 /\ okey' \in DOMAIN cache

\* the step that ends a call which missed the cache
CacheWrite == opc # "idle" /\ opc' = "idle"

\* C11: within one run the cache entry of a key is written at most once and
\* never changed afterwards, and a later call with the same key returns what
\* the first call returned without invoking any backend: every finished call
\* has left its result in the cache under its key; an entry, once there,
\* stays as it is; the cache is written only for a key it does not hold;
\* and a call whose key is held returns the entry and gathers no output.
C11_CachedOnce ==
    /\ [](opc = "idle" /\ calls > 0 => okey \in DOMAIN cache /\ oret = cache[okey])
    /\ [][ /\ \A k \in DOMAIN cache : k \in DOMAIN cache' /\ cache'[k] = cache[k]
           /\ CacheWrite => okey \notin DOMAIN cache /\ cache'[okey] = oret'
           /\ CacheHit => /\ oret' = cache[okey']
                          /\ cache' = cache
                          /\ opc' = "idle"
                          /\ UNCHANGED <<otexts, oidx, obest, oevald>> ]_vars

\* a second call with the key of the first one has returned, and the entry
\* holds a text
C11_Witness ==
    /\ calls = 2
    /\ opc = "idle"
    /\ Cardinality(DOMAIN cache) = 1
    /\ oret = cache[okey]
    /\ oret.text # "none"

HeadingLines(t) == {i \in 1..Len(t) : IsHeadingLine(t[i])}
TailLinesAfter(t, h) == {i \in (h + 1)..Len(t) : IsTailLine(t[i])}

\* the lines h..e-1 of a text and the newline that ends line e-1
UpToLine(t, h, e) == Append(SubSeq(t, h, e - 1), <<>>)

\* C12: for a text with a heading, _find_references_block returns located =
\* true and the block from the last heading of the text to just before the
\* first tail marker after it, or to the end of the text when none follows.
C12_LastHeadingToTail ==
    HeadingLines(text) # {} =>
        LET r == FindReferencesBlock(text)
        IN  /\ r.found
            /\ \E h \in HeadingLines(text) :
                /\ \A i \in HeadingLines(text) : i <= h
                /\ \/ /\ TailLinesAfter(text, h) = {}
                      /\ r.block = SubSeq(text, h, Len(text))
                   \/ \E e \in TailLinesAfter(text, h) :
                        /\ \A i \in TailLinesAfter(text, h) : e <= i
                        /\ r.block = UpToLine(text, h, e)

\* a text with two headings, a tail marker before the last heading and one
\* after it, with a reference in between
C12_Witness ==
    /\ Cardinality(HeadingLines(text)) = 2
    /\ \E h \in HeadingLines(text) :
        /\ \E i \in 1..(h - 1) : IsTailLine(text[i])
        /\ h + 2 \in TailLinesAfter(text, h)
        /\ h - 1 \in HeadingLines(text)
    /\ Len(FindReferencesBlock(text).block) = 3

\* b is the end of the line l: its last tokens, after at most a fragment
LineEnd(b, l) ==
    /\ Len(b) <= Len(l)
    /\ \A j \in 2..Len(b) : b[j] = l[Len(l) - Len(b) + j]
    /\ b # <<>> => \/ b[1] = l[Len(l) - Len(b) + 1]
                   \/ b[1].k = "TXT" /\ b[1].v < TokLen(l[Len(l) - Len(b) + 1])

\* b is the end of the text t
TextEnd(b, t) ==
    /\ Len(b) <= Len(t)
    /\ \A i \in 2..Len(b) : b[i] = t[Len(t) - Len(b) + i]
    /\ b # <<>> => LineEnd(b[1], t[Len(t) - Len(b) + 1])

OutcomeMade == rlast.verdict # ""

\* the document of the entry was found and some backend yields text for it
UsableText ==
    /\ rlast.counts.how \in {"exact", "fuzzy"}
    /\ BackendTexts(renv.doc, renv.scan_mode, renv.last_pages, renv.extractor) # <<>>

\* C14: with online lookup enabled, the best estimate of an entry is the
\* document-derived count whenever usable document text exists, and the
\* online count whenever none exists (document missing, or found without
\* any text) and the online lookup returned a count.
C14_OnlineFallback ==
    (renv.online /\ OutcomeMade) =>
        /\ UsableText => rlast.best.label = "pdf" /\ rlast.best.count = rlast.counts.pdf
        /\ (~UsableText /\ IsInt(rentry.ans.count))
           => rlast.best.label = "online" /\ rlast.best.count = rentry.ans.count

\* the call at hand has returned and no backend it tried yielded any text
NothingExtracted ==
    /\ opc = "idle"
    /\ calls > 0
    /\ BackendTexts(odoc, okey.mode, okey.pages, okey.extractor) = <<>>

\* C15: when every backend fails or yields only empty text,
\* _get_pdf_text_and_count returns no text, the mode 'none' and the count 0,
\* and the note of ref_count_from_pdf starts with zero_count.
C15_NothingExtracted ==
    NothingExtracted =>
        /\ oret.text = "none"
        /\ oret.label = "none"
        /\ oret.count = 0
        /\ RefCountOf(oret).note.status = "zero_count"
        /\ RefCountOf(oret).note.label = "none"

\* a call with the pdfminer extractor has returned for a document of which
\* pdftotext alone would yield text
C15_Witness ==
    /\ NothingExtracted
    /\ okey.extractor = "pdfminer"
    /\ odoc.ptt # "none"
    /\ oevald = <<>>

\* "ref": pid or "": the field written for the reference at hand; the empty
\* string and None are both the empty sequence
RefField == mres

\* C18: the ref field written for an extracted reference is the empty string
\* or an identifier of the catalog index's identifier set (the id of a catalog
\* entry or the basename of a PDF of the document directory).
C18_RefIsKnownId ==
    mpc = "mapped" =>
        \/ RefField = <<>>
        \/ /\ RefField \in catalog.ids
           /\ \/ \E n \in WithId(entries) : RefField = entries[n].id
              \/ \E i \in 1..Len(listing) : IsPdf(listing[i]) /\ RefField = Basename(listing[i])

\* a reference mapped by the file names of the directory to a document that
\* is no entry of the catalog
C18_Witness ==
    /\ mpc = "mapped"
    /\ entries # <<>>
    /\ RefField # <<>>
    /\ \A n \in WithId(entries) : RefField # entries[n].id

\* the backend a label of the candidate texts names
BackendOf(label) ==
    CASE label \in {"pypdf-full", "pypdf-tail", "pypdf-auto-tail", "pypdf-auto-full"} -> "pypdf"
      [] label = "pdfminer-full" -> "pdfminer"
      [] label = "pdftotext-full" -> "pdftotext"

\* C17: with a single extractor selected (pypdf, pdfminer or pdftotext), the
\* candidate texts of a call hold the output of that backend only.
C17_OnlySelectedBackend ==
    (opc # "idle" /\ okey.extractor \in {"pypdf", "pdfminer", "pdftotext"}) =>
        \A i \in 1..Len(otexts) : BackendOf(otexts[i].label) = okey.extractor

\* the entry has no best estimate, or one that its declared count differs from
NoEstimate(o) == ~IsInt(o.best.count)
DeclaredDiffers(o) == IsInt(o.best.count) /\ o.counts.json # o.best.count
DeclaredEqual(o) == IsInt(o.best.count) /\ o.counts.json = o.best.count

\* C19: the report holds a block for an entry if and only if the entry is a
\* mismatch or unresolved; an entry whose declared count equals its best
\* estimate gets no block and raises no total but Processed.
C19_ListedIffOff ==
    [][ EntryProcessed =>
          /\ rlast'.block.kind # "none" <=> (NoEstimate(rlast') \/ DeclaredDiffers(rlast'))
          /\ NoEstimate(rlast') => rlast'.block.kind = "unresolved"
          /\ DeclaredDiffers(rlast') => rlast'.block.kind = "mismatch"
          /\ DeclaredEqual(rlast') =>
                /\ rlast'.block.kind = "none"
                /\ rtotals' = [rtotals EXCEPT !.processed = @ + 1] ]_vars

\* after a mismatch, an entry whose declared count equals its document count
\* has been processed
C19_Witness ==
    /\ rpc = "loop"
    /\ DeclaredEqual(rlast)
    /\ rlast.best.label = "pdf"
    /\ rlast.best.count = <<SmallRefs>>
    /\ rlast.block.kind = "none"
    /\ rtotals = [processed |-> 2, mismatches |-> 1, missing_pdf |-> 0, parse_fail |-> 0]

\* the branch of the policy for consistent anchors: at least 5 validated
\* segments, and contig_ratio >= 0.5 or a line that starts with [n]
SegmentsConsistent ==
    /\ cres.detectors.segmented >= 5
    /\ (2 * cres.contig.num >= cres.contig.den \/ cres.detectors.square > 0)

\* at least 5 unique bracket labels, of contiguity >= 0.6
LabelsContiguous ==
    /\ cres.detectors.labels_unique >= 5
    /\ 10 * cres.contig_all.num >= 6 * cres.contig_all.den

\* C20 as stated: in that branch the counter returns the segment count S,
\* unless the unique-label count U is >= 5, S < 0.7 * U and the unique-label
\* contiguity is >= 0.6, in which case it returns U.
C20_AsClaimed ==
    SegmentsConsistent =>
        cres.count =
            IF LabelsContiguous /\ 10 * cres.detectors.segmented < 7 * cres.detectors.labels_unique
            THEN cres.detectors.labels_unique
            ELSE cres.detectors.segmented

\* C20: in that branch the counter returns the segment count S, unless the
\* unique-label count U is >= 5, S is below the integer part of 0.7 * U and
\* the unique-label contiguity is >= 0.6, in which case it returns U.
C20_SegmentsOrLabels ==
    SegmentsConsistent =>
        cres.count =
            IF LabelsContiguous
               /\ 10 * (cres.detectors.segmented + 1) <= 7 * cres.detectors.labels_unique
            THEN cres.detectors.labels_unique
            ELSE cres.detectors.segmented

\* 5 validated segments against 9 contiguous unique labels: the label count
\* is returned
C20_Witness ==
    /\ SegmentsConsistent
    /\ LabelsContiguous
    /\ cres.detectors.segmented = 5
    /\ cres.detectors.labels_unique = 9
    /\ cres.count = 9

\* C16: a complete run of main never modifies the catalog file: after the
\* run its content is what it was before, and the extracted citations are
\* in reports/extracted_citations.json only.
C16_CatalogUntouched ==
    (mainpc = "done" /\ mret = <<0>>) =>
        /\ fjson = mloaded
        /\ fextracted = <<mextracted>>

\* ---- C21 ----
\* the detectors of the second branch of the policy, in the order it tries them
SecondBranch ==
    << "author_start", "author_clusters", "author_fname_start", "corp_year",
       "dois_unique", "year_lead", "boundaries" >>

\* the first branch of the policy applies to the detector values d
FirstBranch(d, cr) == d.segmented >= 5 /\ (2 * cr.num >= cr.den \/ d.square > 0)

FloorOf(l) == IF l = "corp_year" THEN 3 ELSE 5

\* detector l of d meets its floor and is not below tenths/10 of the largest
MeetsBoth(d, l, tenths) ==
    d[l] >= FloorOf(l) /\ 10 * d[l] >= tenths * MaxCandidate(d).count

PlaceOf(l) == CHOOSE i \in 1..Len(SecondBranch) : SecondBranch[i] = l

\* the branch of the policy that accepts: the label it gives, or "none" when
\* the policy falls through to the largest candidate
AcceptedBy(d, cr, ca) ==
    PolicyOver(d, cr, ca, [label |-> "none", count |-> MaxCandidate(d).count]).label

SecondBranchChosen ==
    /\ block # <<>>
    /\ ~FirstBranch(cres.detectors, cres.contig)
    /\ AcceptedBy(cres.detectors, cres.contig, cres.contig_all) = cres.label
    /\ \E i \in 1..Len(SecondBranch) : SecondBranch[i] = cres.label

FallsThrough ==
    /\ block # <<>>
    /\ AcceptedBy(cres.detectors, cres.contig, cres.contig_all) = "none"

LargestCount == MaxCandidate(cres.detectors).count

Min2(a, b) == IF a <= b THEN a ELSE b

\* C22 as stated: on falling through, the count is the largest detector count
\* M, or min(M, floor(1.1 * U)) when the unique-label count U is not 0
C22_AsClaimed ==
    FallsThrough =>
        cres.count = IF cres.detectors.labels_unique = 0 THEN LargestCount
                     ELSE Min2(LargestCount, (11 * cres.detectors.labels_unique) \div 10)

\* C22: on falling through, the count is the largest detector count M when
\* the unique-label count U is 0 or M is at most floor(1.1 * U), and is U
\* itself when M exceeds floor(1.1 * U)
C22_LargestOrLabels ==
    FallsThrough =>
        cres.count = IF \/ cres.detectors.labels_unique = 0
                        \/ LargestCount <= (11 * cres.detectors.labels_unique) \div 10
                     THEN LargestCount
                     ELSE cres.detectors.labels_unique

\* the largest count exceeds floor(1.1 * U) for a U of 10 or more
C22_Witness ==
    /\ FallsThrough
    /\ cres.detectors.labels_unique >= 10
    /\ LargestCount > (11 * cres.detectors.labels_unique) \div 10

\* ---- C23 ----
\* the mapped reference got as far as the token-Jaccard stage
JaccardReached ==
    /\ mpc = "mapped"
    /\ ~(mref.doi # "" /\ NormalizeDoi(Str(mref.doi)) \in DOMAIN catalog.by_doi)
    /\ mref.title # ""
    /\ NormalizeTitle(Str(mref.title)) \notin DOMAIN catalog.by_title

\* the identifier is returned by the token-Jaccard stage
ReturnedByJaccard ==
    /\ JaccardReached
    /\ JaccardAccepted(JaccardBest(JaccardCandidates(mref, catalog), 1,
                                   ElementsOf(TokenizeTitle(Str(mref.title))),
                                   [id |-> <<>>, inter |-> 0, uni |-> 1]))

RefTokens == ElementsOf(TokenizeTitle(Str(mref.title)))
EntryTokens(n) == ElementsOf(TokenizeTitle(Str(entries[n].title)))
SharedWith(n) == Cardinality(EntryTokens(n) \cap RefTokens)
UnionWith(n) == Cardinality(EntryTokens(n) \cup RefTokens)

\* the entries of the reference's year, and the entries with id and title
OfRefYear == {n \in WithTitle(entries) : entries[n].year = mref.year}

\* entry n is the best of the candidates cands: three shared tokens, a score
\* of 0.4 or more, and no candidate with three shared tokens scores higher
BestAmong(n, cands) ==
    /\ n \in cands
    /\ SharedWith(n) >= 3
    /\ 10 * SharedWith(n) >= 4 * UnionWith(n)
    /\ \A m \in cands :
          SharedWith(m) >= 3 => SharedWith(m) * UnionWith(n) <= SharedWith(n) * UnionWith(m)

\* C23 as stated: with a known year the candidates are the entries of that
\* year only, and the identifier the Jaccard stage returns is the best of them
C23_AsClaimed ==
    ReturnedByJaccard =>
        \E n \in (IF mref.year # 0 THEN OfRefYear ELSE WithTitle(entries)) :
            entries[n].id = mres /\ BestAmong(n, IF mref.year # 0 THEN OfRefYear ELSE WithTitle(entries))

\* C23: the candidates are the entries of the reference's year when the year
\* is known and the catalog holds an entry of that year, and all entries
\* otherwise; the identifier the Jaccard stage returns shares three tokens
\* with the title and has the best score among them, 0.4 or more
C23_YearRestricted ==
    ReturnedByJaccard =>
        \E n \in (IF OfRefYear # {} THEN OfRefYear ELSE WithTitle(entries)) :
            entries[n].id = mres /\ BestAmong(n, IF OfRefYear # {} THEN OfRefYear ELSE WithTitle(entries))

\* a reference with a known year gets its identifier from the Jaccard stage
C23_Witness == ReturnedByJaccard /\ mref.year # 0 /\ OfRefYear # {}

\* ---- C24 ----
\* the sentence-like parts after the year of the segment parsed last: the
\* parts of six characters or more
PartsAfterYear ==
    Parts(TailAfter(SegClean(SegChars(pseg)), YearStart(SegClean(SegChars(pseg)))))

TitleCandidates == SelectSeq(PartsAfterYear, LAMBDA q : Len(q) >= 6)

\* C24 as stated: the title is the first candidate, and None when a venue
\* marker begins that candidate
C24_AsClaimed ==
    pseg # <<>> =>
        pinfo.title = IF TitleCandidates = <<>> \/ VenueMarked(Head(TitleCandidates))
                      THEN <<>> ELSE Head(TitleCandidates)

\* C24: the title is the first candidate that no venue marker begins, the
\* candidates before it being passed over, and None only when a venue marker
\* begins every candidate
C24_FirstUnmarked ==
    pseg # <<>> =>
        pinfo.title = IF SelectSeq(TitleCandidates, LAMBDA q : ~VenueMarked(q)) = <<>>
                      THEN <<>>
                      ELSE Head(SelectSeq(TitleCandidates, LAMBDA q : ~VenueMarked(q)))

\* a venue marker begins the first candidate and a later part is the title
C24_Witness ==
    /\ TitleCandidates # <<>>
    /\ VenueMarked(Head(TitleCandidates))
    /\ pinfo.title # <<>>

\* ---- C25 ----
\* the i-th output evaluated has a located block and a count of 10 or more
ExitsAt(i) == oevald[i].found /\ oevald[i].count >= 10

ExitSeen == \E i \in 1..Len(oevald) : ExitsAt(i)

\* the outputs are evaluated in the order of texts; only the last one
\* evaluated may be one that ends the loop; a call that returns without such
\* an output has evaluated every output
EvaluatedInOrder ==
    /\ Len(oevald) <= Len(otexts)
    /\ \A i \in 1..Len(oevald) : oevald[i].label = otexts[i].label
    /\ \A i \in 1..(Len(oevald) - 1) : ~ExitsAt(i)
    /\ (opc = "idle" /\ ~ExitSeen) => Len(oevald) = Len(otexts)

\* C25: once an output with a located block and a count of 10 or more has
\* been evaluated, the call evaluates no further output and keeps the result
\* it has retained; without such an output every non-empty backend output is
\* evaluated, in preference order
C25_EarlyExit ==
    /\ []EvaluatedInOrder
    /\ [][(ExitSeen /\ opc # "idle") => (oevald' = oevald /\ obest' = obest /\ oret' = obest)]_vars

\* a call has returned on an output that ends the loop, leaving later
\* outputs unevaluated
C25_Witness == opc = "idle" /\ ExitSeen /\ Len(oevald) < Len(otexts)

\* ---- C26 ----
\* the segments sgs lie one after the other from the first anchor to the
\* end, len characters in, each beginning at one of the anchor offsets
Partitions(sgs, len, anchors) ==
    /\ \A n \in 1..Len(sgs) : sgs[n].pos \in anchors /\ sgs[n].pos < sgs[n].end
    /\ \A n \in 1..(Len(sgs) - 1) :
          sgs[n].pos < sgs[n + 1].pos /\ sgs[n].end = sgs[n + 1].pos
    /\ sgs # <<>> => sgs[Len(sgs)].end = len
    /\ Len(sgs) = Cardinality(anchors)

\* C26: the segments of a block are in increasing offset order, each starts
\* at an anchor and ends where the next one starts, the last at the end of
\* the block; a block without anchor has no segment
C26_Partition ==
    Partitions(SegmentOffsets(block), JoinedLen(block),
               {AnchorStart(block, i) : i \in AnchorLines(block)})

\* three segments or more, the first anchor not at the start of the block
\* and some segment longer than its own line
C26_Witness ==
    /\ Len(SegmentOffsets(block)) >= 3
    /\ SegmentOffsets(block)[1].pos > 0
    /\ \E n \in 1..Len(SegmentReferences(block)) :
          SegmentReferences(block)[n].to > SegmentReferences(block)[n].from

\* ---- C27 ----
\* the block of the text segmented last, and the anchors in it
BlockOfText == FindReferencesBlock(text).block

AnchorCount == Cardinality(AnchorLines(BlockOfText))

\* the anchor segments of 40 characters or more
LongAnchorSegs == AnchorSegs(BlockOfText)

\* C27 as stated: the anchor segments with 5 anchors or more in the block,
\* the boundary chunks with fewer
C27_AsClaimed ==
    text # <<>> =>
        segments = IF AnchorCount >= 5 THEN LongAnchorSegs
                   ELSE BoundaryChunks(BlockOfText, 1, <<>>)

\* C27: the anchor segments of 40 characters or more when there are 5 of
\* them or more, the boundary chunks exactly when there are fewer
C27_FiveLongSegments ==
    text # <<>> =>
        segments = IF Len(LongAnchorSegs) >= 5 THEN LongAnchorSegs
                   ELSE BoundaryChunks(BlockOfText, 1, <<>>)

\* five anchors, one of them short: the boundary chunks are returned
C27_Witness ==
    /\ AnchorCount >= 5
    /\ Len(LongAnchorSegs) < 5
    /\ segments = BoundaryChunks(BlockOfText, 1, <<>>)
    /\ segments # LongAnchorSegs

\* ---- C28 ----
\* the 13 raw detector counts of the block counted last
RawCounts ==
    { cres.detectors.segmented, cres.detectors.square, cres.detectors.numbered,
      cres.detectors.bullet, cres.detectors.labels_unique, cres.detectors.paragraph,
      cres.detectors.author_start, cres.detectors.author_fname_start,
      cres.detectors.corp_year, cres.detectors.dois_unique,
      cres.detectors.author_clusters, cres.detectors.boundaries,
      cres.detectors.year_lead }

\* C28: the count returned is a natural number, and no raw detector count is
\* below it: it never exceeds the largest of them
C28_WithinLargest ==
    /\ cres.count \in Nat
    /\ \E c \in RawCounts : cres.count <= c

\* the cap has been applied: the count is above zero and below the largest
\* raw count
C28_Witness ==
    /\ cres.capped
    /\ cres.count > 0
    /\ \E c \in RawCounts : cres.count < c

\* ---- C29 ----
\* Mismatches + Missing PDFs + Parse/Lookup failures
Listed(t) == t.mismatches + t.missing_pdf + t.parse_fail

\* between two entries and at the summary: Processed is the number of
\* entries taken, and the three other counters add up to the number of
\* entry blocks, which is at most Processed
TotalsAddUp ==
    rpc \in {"loop", "done"} =>
        /\ rtotals.processed = rread
        /\ Listed(rtotals) = rblocks
        /\ Listed(rtotals) <= rtotals.processed

\* the body of the loop counts the entry once, as a match or under one of
\* the three other counters
CountedOnce ==
    (rpc = "entry" /\ rpc' = "loop") =>
        /\ rlast'.verdict \in {"match", "mismatch", "unresolved"}
        /\ rtotals'.processed = rtotals.processed + 1
        /\ rtotals'.mismatches >= rtotals.mismatches
        /\ rtotals'.missing_pdf >= rtotals.missing_pdf
        /\ rtotals'.parse_fail >= rtotals.parse_fail
        /\ Listed(rtotals') = Listed(rtotals) + (IF rlast'.verdict = "match" THEN 0 ELSE 1)

\* C29: build_report counts every entry in exactly one of match, mismatch,
\* missing document and parse/lookup failure; Processed is the number of
\* entries, and Mismatches + Missing PDFs + Parse/Lookup failures is the
\* number of entry blocks of the report, at most Processed
C29_CountedOnce == []TotalsAddUp /\ [][CountedOnce]_vars

\* a report of two entries, one of them a match, the other without document
C29_Witness ==
    /\ rpc = "done"
    /\ rtotals.processed = 2
    /\ rtotals.missing_pdf = 1
    /\ rblocks = 1

\* ---- C30 ----
\* both functions have taken the same entries, one or more
BothRan == rpc \in {"loop", "done"} /\ rread > 0 /\ aread = rread

\* C30: build_report and annotate_json choose the same best source and
\* value for the entry, count it as a mismatch alike, and have equal
\* mismatch totals
C30_ReportAndAnnotationAgree ==
    BothRan =>
        /\ alast.source = rlast.best.label
        /\ alast.best = rlast.best.count
        /\ alast.off <=> (rlast.verdict = "mismatch")
        /\ atotals.mismatches = rtotals.mismatches

====
